---- MODULE Spec2Model ----
(***************************************************************************)
(* A model of api-response-mocker: the Router (src/src/schema.js), the     *)
(* ApiResponseMocker and createMockServer entry points (src/src/index.js), *)
(* the ResponseHandler pipeline (src/src/response-handler.js), the         *)
(* ScenarioManager (src/src/scenario.js), the DelayController              *)
(* (src/src/delay.js), the Schema interpreter (src/src/schema.js) and the  *)
(* error simulators (src/src/errors.js, src/unnamed/part_002).             *)
(*                                                                         *)
(* JavaScript strings are modelled as sequences of one-character strings,  *)
(* so that escaping, prefix tests, slicing and pattern matching are        *)
(* computed character by character as the code computes them.              *)
(***************************************************************************)
EXTENDS Integers, Sequences, FiniteSets, TLC

VARIABLES
    routes,       \* Router.routes: the Map's entries in insertion order
    routerThrew,  \* TRUE when the last Router.register call threw
    endpoints,    \* ApiResponseMocker.endpoints: the Map's entries
    lastGen,      \* the last ApiResponseMocker.generate call and its result
    defaultDelay, \* DelayController.defaultDelay
    delayRange,   \* DelayController.delayRange
    activeTimers, \* DelayController.activeTimers: the ids of its timers
    aborted,      \* DelayController.aborted
    scheduled,    \* the timers the runtime holds: set, not yet fired or cleared
    promises,     \* the promises wait and execute have returned, by timer id
    delayLast,    \* the last DelayController call: which, and whether it threw
    scenarios,    \* ScenarioManager.scenarios: the Map's entries
    activeScenarios, \* ScenarioManager.activeScenarios: endpoint -> names
    scenarioLast, \* the last ScenarioManager call: which, and whether it threw
    requests,     \* the handle calls: position, matched route, response
    simLast,      \* the last error-simulation call: its inputs and outcome
    interp,       \* a schema document under interpretation and its outputs
    logger,       \* the Logger of createMockServer, or none
    counters,     \* sequence.counters: the own properties of the object
    seqLast,      \* the last sequence or sequence.reset call and its result
    seqCalls,     \* per name, the sequence calls made since its last reset
    store,        \* a StateStore: state, history and initialState
    storeLast,    \* the last StateStore call and its outcome
    storeTrail,   \* getState() before each mutating call not yet undone
    interceptors, \* InterceptorChain.interceptors
    execution,    \* an execute call in flight: its iterator, context and outcome
    parsed,       \* the last Schema.parseArgs call: its text and its result
    presets       \* the ScenarioPresets.rateLimited instances created

routerVars == <<routes, routerThrew>>
mockerVars == <<endpoints, lastGen>>
delayVars == <<defaultDelay, delayRange, activeTimers, aborted, scheduled,
               promises, delayLast>>
scenarioVars == <<scenarios, activeScenarios, scenarioLast>>
handlerVars == <<requests>>
errorVars == <<simLast>>
schemaVars == <<interp>>
loggerVars == <<logger>>
sequenceVars == <<counters, seqLast, seqCalls>>
storeVars == <<store, storeLast, storeTrail>>
chainVars == <<interceptors, execution>>
toolVars == <<parsed, presets>>
auxVars == <<sequenceVars, storeVars, chainVars, toolVars>>
vars == <<routes, routerThrew, endpoints, lastGen, defaultDelay, delayRange,
          activeTimers, aborted, scheduled, promises, delayLast, scenarios,
          activeScenarios, scenarioLast, requests, simLast, interp,
          logger,
          counters, seqLast, seqCalls, store, storeLast, storeTrail, interceptors, execution,
          parsed, presets>>

(***************************************************************************)
(* JavaScript values.                                                      *)
(***************************************************************************)
Null == [t |-> "null"]
Undefined == [t |-> "undefined"]
Str(s) == [t |-> "str", v |-> s]
Num(n) == [t |-> "num", v |-> n]
Obj(entries) == [t |-> "obj", v |-> entries]
Bool(b) == [t |-> "bool", v |-> b]
NaN == [t |-> "nan"]

\* the completion of a call that threw instead of returning a value
Raised == [t |-> "raised"]

(***************************************************************************)
(* Characters.                                                             *)
(***************************************************************************)
LowerChars == <<"a","b","c","d","e","f","g","h","i","j","k","l","m",
                "n","o","p","q","r","s","t","u","v","w","x","y","z">>
UpperChars == <<"A","B","C","D","E","F","G","H","I","J","K","L","M",
                "N","O","P","Q","R","S","T","U","V","W","X","Y","Z">>
Digits == {"0","1","2","3","4","5","6","7","8","9"}
Letters == {LowerChars[i] : i \in 1..26} \cup {UpperChars[i] : i \in 1..26}

\* String.prototype.toUpperCase, one character
UpperChar(c) ==
    IF \E i \in 1..26 : LowerChars[i] = c
    THEN UpperChars[CHOOSE i \in 1..26 : LowerChars[i] = c]
    ELSE c

\* String.prototype.toUpperCase
ToUpperCase(s) == [i \in 1..Len(s) |-> UpperChar(s[i])]

\* the character class [a-zA-Z_]
IsIdentStart(c) == c \in Letters \cup {"_"}
\* the character class [a-zA-Z0-9_]
IsIdentChar(c) == c \in Letters \cup Digits \cup {"_"}

\* the character class [.*+?^${}()|[\]\\] of _pathToRegex
MetaChars == {".","*","+","?","^","$","{","}","(",")","|","[","]","\\"}

\* the replacement text '([^/]+)' of _pathToRegex
CaptureText == <<"(","[","^","/","]","+",")">>

\* the length of the longest run of [a-zA-Z0-9_] characters of s from i on
RECURSIVE IdentRun(_, _)
IdentRun(s, i) ==
    IF i <= Len(s) /\ IsIdentChar(s[i]) THEN 1 + IdentRun(s, i + 1) ELSE 0

(***************************************************************************)
(* Router (src/src/schema.js, lines 329-428).                              *)
(***************************************************************************)

\* path.replace(/[.*+?^${}()|[\]\\]/g, '\\$&'): a backslash before each
\* metacharacter, every other character (':' among them) as it is
RECURSIVE EscapeMeta(_)
EscapeMeta(s) ==
    IF s = <<>> THEN <<>>
    ELSE (IF Head(s) \in MetaChars THEN <<"\\", Head(s)>> ELSE <<Head(s)>>)
         \o EscapeMeta(Tail(s))

\* .replace(/\\:([a-zA-Z_][a-zA-Z0-9_]*)/g, '([^/]+)'): the pattern asks for
\* a backslash, then ':', then an identifier
RECURSIVE ReplaceParams(_)
ReplaceParams(s) ==
    IF s = <<>> THEN <<>>
    ELSE IF Len(s) >= 3 /\ s[1] = "\\" /\ s[2] = ":" /\ IsIdentStart(s[3])
         THEN CaptureText \o ReplaceParams(SubSeq(s, 3 + IdentRun(s, 3), Len(s)))
         ELSE <<Head(s)>> \o ReplaceParams(Tail(s))

\* the source text of the regular expression, between '^' and '$'
RegexSource(path) == ReplaceParams(EscapeMeta(path))

\* new RegExp(`^${escaped}$`): the tokens of the pattern, or a SyntaxError.
\* A backslash makes the next character a literal; '([^/]+)' is a capture
\* of one or more characters other than '/'; after the escaping step an
\* unescaped metacharacter is left only where a backslash has taken the
\* '(' of a capture text, and the ')' then left unmatched is a SyntaxError.
RECURSIVE ParseRegex(_)
ParseRegex(s) ==
    IF s = <<>> THEN [ok |-> TRUE, toks |-> <<>>]
    ELSE IF s[1] = "\\"
    THEN IF Len(s) < 2 THEN [ok |-> FALSE, toks |-> <<>>]
         ELSE LET rest == ParseRegex(SubSeq(s, 3, Len(s)))
              IN [ok |-> rest.ok,
                  toks |-> <<[k |-> "lit", c |-> s[2]]>> \o rest.toks]
    ELSE IF Len(s) >= 7 /\ SubSeq(s, 1, 7) = CaptureText
    THEN LET rest == ParseRegex(SubSeq(s, 8, Len(s)))
         IN [ok |-> rest.ok, toks |-> <<[k |-> "cap", c |-> ""]>> \o rest.toks]
    ELSE IF s[1] \in MetaChars THEN [ok |-> FALSE, toks |-> <<>>]
    ELSE LET rest == ParseRegex(Tail(s))
         IN [ok |-> rest.ok, toks |-> <<[k |-> "lit", c |-> s[1]]>> \o rest.toks]

\* _pathToRegex(path)
PathToRegex(path) == ParseRegex(RegexSource(path))

\* the length of the longest run of characters other than '/' of s from 1 on
RECURSIVE NonSlashRun(_)
NonSlashRun(s) ==
    IF s /= <<>> /\ Head(s) /= "/" THEN 1 + NonSlashRun(Tail(s)) ELSE 0

\* path.match(pattern) for an anchored pattern: whether the whole path is
\* matched and, if so, the captured groups in order (a capture is greedy)
RECURSIVE RegexMatch(_, _)
RegexMatch(toks, path) ==
    IF toks = <<>> THEN [ok |-> path = <<>>, caps |-> <<>>]
    ELSE IF Head(toks).k = "lit"
    THEN IF path /= <<>> /\ Head(path) = Head(toks).c
         THEN RegexMatch(Tail(toks), Tail(path))
         ELSE [ok |-> FALSE, caps |-> <<>>]
    ELSE LET lens == {n \in 1..NonSlashRun(path) :
                        RegexMatch(Tail(toks), SubSeq(path, n + 1, Len(path))).ok}
         IN IF lens = {} THEN [ok |-> FALSE, caps |-> <<>>]
            ELSE LET n == CHOOSE m \in lens : \A o \in lens : o <= m
                     rest == RegexMatch(Tail(toks), SubSeq(path, n + 1, Len(path)))
                 IN [ok |-> TRUE, caps |-> <<SubSeq(path, 1, n)>> \o rest.caps]

\* _extractParamNames(path): the identifiers after each ':' of the template,
\* left to right
RECURSIVE ExtractParamNames(_)
ExtractParamNames(path) ==
    IF path = <<>> THEN <<>>
    ELSE IF Len(path) >= 2 /\ path[1] = ":" /\ IsIdentStart(path[2])
         THEN LET n == IdentRun(path, 2)
              IN <<SubSeq(path, 2, 1 + n)>>
                 \o ExtractParamNames(SubSeq(path, 2 + n, Len(path)))
         ELSE ExtractParamNames(Tail(path))

\* _extractParams(paramNames, match): params[name] = match[index + 1]; a
\* group the match does not have reads as undefined, and a name that occurs
\* twice keeps its last binding
ExtractParams(paramNames, caps) ==
    [name \in {paramNames[i] : i \in 1..Len(paramNames)} |->
        LET i == CHOOSE j \in 1..Len(paramNames) :
                    /\ paramNames[j] = name
                    /\ \A l \in 1..Len(paramNames) : paramNames[l] = name => l <= j
        IN IF i <= Len(caps) THEN Str(caps[i]) ELSE Undefined]

\* _createKey(method, path)
CreateKey(method, path) == ToUpperCase(method) \o <<":">> \o path

\* the index of the entry of a Map (a sequence of records with a key) that
\* has the key, or 0
IndexOfKey(entries, key) ==
    IF \E i \in 1..Len(entries) : entries[i].key = key
    THEN CHOOSE i \in 1..Len(entries) : entries[i].key = key
    ELSE 0

\* a set that never replaces: the value always goes last, beside an entry
\* of the same key
MapSet_AlwaysAppend(entries, key, value) == Append(entries, value)

\* Map.prototype.set: an existing key keeps its place, a new key goes last
MapSet(entries, key, value) ==
    LET i == IndexOfKey(entries, key)
    IN IF i = 0 THEN Append(entries, value)
       ELSE [entries EXCEPT ![i] = value]

\* Map.prototype.delete
MapDelete(entries, key) ==
    LET i == IndexOfKey(entries, key)
    IN IF i = 0 THEN entries
       ELSE SubSeq(entries, 1, i - 1) \o SubSeq(entries, i + 1, Len(entries))

\* the value register stores under the key
RouteRecord(method, path, config) ==
    [key |-> CreateKey(method, path),
     method |-> ToUpperCase(method),
     path |-> path,
     pattern |-> PathToRegex(path).toks,
     paramNames |-> ExtractParamNames(path),
     config |-> config]

\* Router.match(method, path): the first route in insertion order with the
\* method and a pattern that matches, with its params; null if there is none
NoRoute == [found |-> FALSE]
Match(rts, method, path) ==
    LET hits == {i \in 1..Len(rts) :
                    /\ rts[i].method = ToUpperCase(method)
                    /\ RegexMatch(rts[i].pattern, path).ok}
    IN IF hits = {} THEN NoRoute
       ELSE LET i == CHOOSE j \in hits : \A l \in hits : j <= l
            IN [found |-> TRUE,
                key |-> rts[i].key,
                method |-> rts[i].method,
                path |-> rts[i].path,
                config |-> rts[i].config,
                params |-> ExtractParams(rts[i].paramNames,
                                         RegexMatch(rts[i].pattern, path).caps)]

(***************************************************************************)
(* Truthiness and the fake-data generators (src/src/generators.js).        *)
(***************************************************************************)

\* JavaScript truthiness of a value
Truthy(v) ==
    CASE v.t = "null" -> FALSE
      [] v.t = "undefined" -> FALSE
      [] v.t = "num" -> v.v /= 0
      [] v.t = "str" -> v.v /= <<>>
      [] v.t = "bool" -> v.v
      [] v.t = "nan" -> FALSE
      [] OTHER -> TRUE

\* the name arrays of generators.js (their first entries)
FirstNames == <<<<"J","a","m","e","s">>, <<"M","a","r","y">>>>
LastNames == <<<<"S","m","i","t","h">>, <<"B","r","o","w","n">>>>

\* the values Math.random() can take, as the index it selects in an array
\* of two
RandomDraws == [first : 1..2, last : 1..2]

\* fullName(): `${firstName()} ${lastName()}`
FullName(rnd) == Str(FirstNames[rnd.first] \o <<" ">> \o LastNames[rnd.last])

S_fullName == <<"f","u","l","l","N","a","m","e">>
S_firstName == <<"f","i","r","s","t","N","a","m","e">>

\* generators[name] is a function
IsGenerator(name) == name \in {S_fullName, S_firstName}

\* generators[name]() for the generators the model carries
CallBuiltin(name, rnd) ==
    IF name = S_fullName THEN FullName(rnd)
    ELSE Str(FirstNames[rnd.first])

S_hasOwnProperty == <<"h","a","s","O","w","n","P","r","o","p","e","r","t","y">>
S_proto == <<"_","_","p","r","o","t","o","_","_">>

\* what generators[name] is, for the exported object literal of
\* generators.js: one of its own functions, a function or an object it
\* inherits from Object.prototype, or undefined
GeneratorProperty(name) ==
    IF IsGenerator(name) THEN "generator"
    ELSE IF name = S_hasOwnProperty THEN "inheritedFunction"
    ELSE IF name = S_proto THEN "inheritedObject"
    ELSE "undefined"

(***************************************************************************)
(* The inputs of the model: methods, path templates, concrete paths and    *)
(* endpoint configurations.                                                *)
(***************************************************************************)
M_GET == <<"G","E","T">>
M_get == <<"g","e","t">>
M_PUT == <<"P","U","T">>
MethodInputs == {M_GET, M_get, M_PUT}

TplUserId == <<"/","u","/",":","i","d">>
TplUserMe == <<"/","u","/","m","e">>
TplDotted == <<"/","v",".","1">>
TplEscaped == <<"/","\\",":","a">>
Templates == {TplUserId, TplUserMe, TplDotted, TplEscaped}

P_u42 == <<"/","u","/","4","2">>
P_vx1 == <<"/","v","x","1">>
P_none == <<"/","n","o">>
PathInputs == {P_u42, TplUserMe, TplUserId, TplDotted, P_vx1, P_none}

S_id == <<"i","d">>
S_name == <<"n","a","m","e">>
S_ok == <<"o","k">>
S_params_id == <<"p","a","r","a","m","s",".","i","d">>
S_dollar_params_id == <<"$">> \o S_params_id
S_tpl_fullName == <<"{","{">> \o S_fullName \o <<"}","}">>

\* {id: "params.id", name: "{{fullName}}"}
UserSchema ==
    Obj(<<[k |-> S_id, v |-> Str(S_params_id)],
          [k |-> S_name, v |-> Str(S_tpl_fullName)]>>)

\* {ok: "ok"}
StaticBody == Obj(<<[k |-> S_ok, v |-> Str(S_ok)]>>)

\* an endpoint configuration; a property the object does not have is
\* undefined
Config(schema, body, status, delay, error) ==
    [schema |-> schema, body |-> body, status |-> status,
     headers |-> Undefined, delay |-> delay, error |-> error]

CfgUser == Config(UserSchema, Undefined, Undefined, Undefined, Undefined)
CfgStatic == Config(Undefined, StaticBody, Num(201), Undefined, Undefined)

(***************************************************************************)
(* Router operations.                                                      *)
(***************************************************************************)

\* Router.register(method, path, config): _pathToRegex runs before the Map
\* is touched, so a SyntaxError leaves the routes as they were
Register(method, path, config) ==
    /\ IF PathToRegex(path).ok
       THEN /\ routes' = MapSet(routes, CreateKey(method, path),
                                RouteRecord(method, path, config))
            /\ routerThrew' = FALSE
       ELSE /\ routes' = routes
            /\ routerThrew' = TRUE

\* Router.unregister(method, path)
Unregister(method, path) ==
    /\ IndexOfKey(routes, CreateKey(method, path)) /= 0
    /\ routes' = MapDelete(routes, CreateKey(method, path))
    /\ routerThrew' = FALSE

\* Router.clear()
Clear ==
    /\ routes /= <<>>
    /\ routes' = <<>>
    /\ routerThrew' = FALSE

(***************************************************************************)
(* The Schema interpreter (src/src/schema.js, lines 7-160).                *)
(***************************************************************************)
Arr(items) == [t |-> "arr", v |-> items]

\* obj[key] of an object value: the last entry with the key, or undefined
ObjGet(obj, key) ==
    LET hits == {i \in 1..Len(obj.v) : obj.v[i].k = key}
    IN IF hits = {} THEN Undefined
       ELSE obj.v[CHOOSE i \in hits : \A j \in hits : j <= i].v

\* s without its leading white space
RECURSIVE SkipSpace(_)
SkipSpace(s) ==
    IF s /= <<>> /\ Head(s) = " " THEN SkipSpace(Tail(s)) ELSE s

\* s without its trailing white space
RECURSIVE TrimEnd(_)
TrimEnd(s) ==
    IF s /= <<>> /\ s[Len(s)] = " " THEN TrimEnd(SubSeq(s, 1, Len(s) - 1)) ELSE s

\* value.match(/^\{\{\s*(\w+)(?:\((.*?)\))?\s*\}\}$/): whether the string is
\* a generator placeholder, the generator's name and its argument text
PlaceholderMatch(s) ==
    LET no == [ok |-> FALSE, name |-> <<>>, args |-> <<>>]
    IN IF \/ Len(s) < 4
          \/ SubSeq(s, 1, 2) /= <<"{","{">>
          \/ SubSeq(s, Len(s) - 1, Len(s)) /= <<"}","}">>
       THEN no
       ELSE LET inner == SkipSpace(SubSeq(s, 3, Len(s) - 2))
                n == IdentRun(inner, 1)
                rest == TrimEnd(SubSeq(inner, n + 1, Len(inner)))
            IN IF n = 0 THEN no
               ELSE IF rest = <<>>
               THEN [ok |-> TRUE, name |-> SubSeq(inner, 1, n), args |-> <<>>]
               ELSE IF Len(rest) >= 2 /\ rest[1] = "(" /\ rest[Len(rest)] = ")"
               THEN [ok |-> TRUE, name |-> SubSeq(inner, 1, n),
                     args |-> SubSeq(rest, 2, Len(rest) - 1)]
               ELSE no

\* Schema.callGenerator(name, args): what is not a function gives null; the
\* function is called without a receiver, so that hasOwnProperty throws a
\* TypeError, which the catch turns into null (the generators the model
\* carries take no arguments)
CallGenerator(name, rnd) ==
    CASE GeneratorProperty(name) = "generator" -> CallBuiltin(name, rnd)
      [] GeneratorProperty(name) = "inheritedFunction" -> Null
      [] OTHER -> Null

\* Schema.processStringValue(value)
ProcessStringValue(value, rnd) ==
    LET m == PlaceholderMatch(value.v)
    IN IF m.ok THEN CallGenerator(m.name, rnd) ELSE value

S_repeat == <<"_","r","e","p","e","a","t">>
S_template == <<"_","t","e","m","p","l","a","t","e">>

\* Schema.processValue(value), with processArray and processObject
RECURSIVE SchemaProcessValue(_, _)
SchemaProcessValue(value, rnd) ==
    CASE value.t \in {"null", "undefined"} -> Null
      [] value.t = "str" -> ProcessStringValue(value, rnd)
      [] value.t = "arr" ->
            Arr([i \in 1..Len(value.v) |-> SchemaProcessValue(value.v[i], rnd)])
      [] value.t = "obj" ->
            IF Truthy(ObjGet(value, S_repeat)) /\ Truthy(ObjGet(value, S_template))
            THEN LET r == ObjGet(value, S_repeat)
                     count == IF r.t = "num" /\ r.v > 0 THEN r.v ELSE 1
                 IN Arr([i \in 1..count |->
                            SchemaProcessValue(ObjGet(value, S_template), rnd)])
            ELSE LET kept == SelectSeq(value.v, LAMBDA e : e.v.t /= "undefined")
                 IN Obj([i \in 1..Len(kept) |->
                            [k |-> kept[i].k,
                             v |-> SchemaProcessValue(kept[i].v, rnd)]])
      [] OTHER -> value

\* parseSchema(schema) of index.js: the interpretation of the schema document
ParseSchema(schema, rnd) == SchemaProcessValue(schema, rnd)

(***************************************************************************)
(* ApiResponseMocker (src/src/index.js, lines 9-59).                       *)
(***************************************************************************)

\* the options an endpoint is defined with; a property the object does not
\* have is undefined
Options(schema, status) == [schema |-> schema, status |-> status]
OptionInputs == {Options(Undefined, Undefined), Options(StaticBody, Num(201))}

\* a || b
Or(a, b) == IF Truthy(a) THEN a ELSE b

\* the object define stores: {method, path, schema: options.schema || null,
\* status: options.status || 200, headers: options.headers || {}, ...options}
EndpointRecord(method, path, options) ==
    [key |-> CreateKey(method, path),
     method |-> ToUpperCase(method),
     path |-> path,
     schema |-> IF options.schema.t = "undefined" THEN Null ELSE options.schema,
     status |-> IF options.status.t = "undefined" THEN Num(200) ELSE options.status,
     headers |-> Obj(<<>>)]

\* ApiResponseMocker.define(method, path, options)
Define(method, path, options) ==
    endpoints' = MapSet(endpoints, CreateKey(method, path),
                        EndpointRecord(method, path, options))

\* generate with the lookup miss not told apart: the defaults of define and
\* an interpreted (empty) schema instead of the 404 response
GenerateResult_NoMissCheck(eps, method, path, rnd) ==
    LET i == IndexOfKey(eps, CreateKey(method, path))
    IN [status |-> IF i = 0 THEN 200 ELSE eps[i].status.v,
        body |-> IF i /= 0 /\ Truthy(eps[i].schema)
                 THEN ParseSchema(eps[i].schema, rnd) ELSE Null,
        notDefined |-> FALSE,
        headers |-> Obj(<<>>),
        parsed |-> i = 0 \/ Truthy(eps[i].schema)]

\* the response of ApiResponseMocker.generate(method, path), and whether it
\* called parseSchema
GenerateResult(eps, method, path, rnd) ==
    LET i == IndexOfKey(eps, CreateKey(method, path))
    IN IF i = 0
       THEN [status |-> 404, body |-> Null, notDefined |-> TRUE,
             headers |-> Obj(<<>>), parsed |-> FALSE]
       ELSE [status |-> eps[i].status.v,
             body |-> IF Truthy(eps[i].schema)
                      THEN ParseSchema(eps[i].schema, rnd) ELSE Null,
             notDefined |-> FALSE,
             headers |-> eps[i].headers,
             parsed |-> Truthy(eps[i].schema)]

\* ApiResponseMocker.generate(method, path): the endpoints are only read
Generate(method, path) ==
    \E rnd \in RandomDraws :
        /\ lastGen' = [called |-> TRUE, method |-> method, path |-> path,
                       resp |-> GenerateResult(endpoints, method, path, rnd)]
        /\ endpoints' = endpoints

(***************************************************************************)
(* DelayController (src/src/delay.js, lines 5-152).                        *)
(***************************************************************************)
MaxPromises == 2
PromiseIds == 1..MaxPromises

NoRange == [set |-> FALSE, min |-> 0, max |-> 0]
Range(min, max) == [set |-> TRUE, min |-> min, max |-> max]

NoPromise ==
    [state |-> "none", kind |-> "none", zero |-> FALSE, fnThrows |-> FALSE,
     fnCalled |-> FALSE, err |-> "", bornAborted |-> FALSE, atAbort |-> FALSE]

DelayInit ==
    /\ defaultDelay = 0
    /\ delayRange = NoRange
    /\ activeTimers = {}
    /\ aborted = FALSE
    /\ scheduled = {}
    /\ promises = [p \in PromiseIds |-> NoPromise]
    /\ delayLast = [op |-> "none", threw |-> FALSE]


\* setDelay(ms) that leaves the range of an earlier setDelayRange in place
SetDelay_KeepsRange(ms) ==
    /\ IF ms.t /= "num" \/ ms.v < 0
       THEN /\ delayLast' = [op |-> "setDelay", threw |-> TRUE]
            /\ UNCHANGED <<defaultDelay, delayRange>>
       ELSE /\ defaultDelay' = ms.v
            /\ delayRange' = delayRange
            /\ delayLast' = [op |-> "setDelay", threw |-> FALSE]
    /\ UNCHANGED <<activeTimers, aborted, scheduled, promises>>

\* DelayController.setDelay(ms)
SetDelay(ms) ==
    /\ IF ms.t /= "num" \/ ms.v < 0
       THEN /\ delayLast' = [op |-> "setDelay", threw |-> TRUE]
            /\ UNCHANGED <<defaultDelay, delayRange>>
       ELSE /\ defaultDelay' = ms.v
            /\ delayRange' = NoRange
            /\ delayLast' = [op |-> "setDelay", threw |-> FALSE]
    /\ UNCHANGED <<activeTimers, aborted, scheduled, promises>>

\* setDelayRange(min, max) with min > max checked only after the assignment
SetDelayRange_CheckOrderLate(min, max) ==
    /\ IF min.t /= "num" \/ max.t /= "num"
       THEN /\ delayLast' = [op |-> "setDelayRange", threw |-> TRUE]
            /\ UNCHANGED <<defaultDelay, delayRange>>
       ELSE IF min.v < 0 \/ max.v < 0
       THEN /\ delayLast' = [op |-> "setDelayRange", threw |-> TRUE]
            /\ UNCHANGED <<defaultDelay, delayRange>>
       ELSE /\ delayRange' = Range(min.v, max.v)
            /\ defaultDelay' = 0
            /\ delayLast' = [op |-> "setDelayRange", threw |-> min.v > max.v]
    /\ UNCHANGED <<activeTimers, aborted, scheduled, promises>>

\* DelayController.setDelayRange(min, max)
SetDelayRange(min, max) ==
    /\ IF min.t /= "num" \/ max.t /= "num"
       THEN /\ delayLast' = [op |-> "setDelayRange", threw |-> TRUE]
            /\ UNCHANGED <<defaultDelay, delayRange>>
       ELSE IF min.v < 0 \/ max.v < 0
       THEN /\ delayLast' = [op |-> "setDelayRange", threw |-> TRUE]
            /\ UNCHANGED <<defaultDelay, delayRange>>
       ELSE IF min.v > max.v
       THEN /\ delayLast' = [op |-> "setDelayRange", threw |-> TRUE]
            /\ UNCHANGED <<defaultDelay, delayRange>>
       ELSE /\ delayRange' = Range(min.v, max.v)
            /\ defaultDelay' = 0
            /\ delayLast' = [op |-> "setDelayRange", threw |-> FALSE]
    /\ UNCHANGED <<activeTimers, aborted, scheduled, promises>>

\* the values getDelay() can return: Math.floor(Math.random() * (max - min
\* + 1)) + min is any integer of min..max; without a range, defaultDelay
GetDelayValues(dflt, range) ==
    IF range.set THEN range.min..range.max ELSE {dflt}

\* the id of the promise (and timer) the next wait or execute call creates
NextPromise ==
    IF \E p \in PromiseIds : promises[p].state = "none"
    THEN CHOOSE p \in PromiseIds :
            /\ promises[p].state = "none"
            /\ \A q \in PromiseIds : promises[q].state = "none" => p <= q
    ELSE 0

\* setTimeout(callback, delay) and this.activeTimers.add(timerId)
StartTimer(p) ==
    /\ scheduled' = scheduled \cup {p}
    /\ activeTimers' = activeTimers \cup {p}

\* DelayController.execute(fn): fn returns, or throws when fnThrows
Execute(fnThrows) ==
    LET p == NextPromise
        new == [NoPromise EXCEPT !.kind = "execute", !.fnThrows = fnThrows,
                                 !.bornAborted = aborted]
    IN /\ p /= 0
       /\ IF aborted
          THEN /\ promises' = [promises EXCEPT ![p] =
                    [new EXCEPT !.state = "rejected", !.err = "aborted"]]
               /\ UNCHANGED <<scheduled, activeTimers>>
          ELSE \E delay \in GetDelayValues(defaultDelay, delayRange) :
                  IF delay = 0
                  THEN /\ promises' = [promises EXCEPT ![p] =
                            [new EXCEPT !.zero = TRUE, !.fnCalled = TRUE,
                                        !.state = IF fnThrows THEN "rejected"
                                                  ELSE "resolved",
                                        !.err = IF fnThrows THEN "fn" ELSE ""]]
                       /\ UNCHANGED <<scheduled, activeTimers>>
                  ELSE /\ promises' = [promises EXCEPT ![p] =
                            [new EXCEPT !.state = "pending"]]
                       /\ StartTimer(p)
       /\ delayLast' = [op |-> "execute", threw |-> FALSE]
       /\ UNCHANGED <<defaultDelay, delayRange, aborted>>

\* DelayController.wait(ms): the zero delay is tested before this.aborted
Wait(ms) ==
    LET p == NextPromise
        new == [NoPromise EXCEPT !.kind = "wait", !.bornAborted = aborted]
    IN /\ p /= 0
       /\ \E delay \in (IF ms.t = "num" THEN {ms.v}
                        ELSE GetDelayValues(defaultDelay, delayRange)) :
             IF delay = 0
             THEN /\ promises' = [promises EXCEPT ![p] =
                       [new EXCEPT !.zero = TRUE, !.state = "resolved"]]
                  /\ UNCHANGED <<scheduled, activeTimers>>
             ELSE IF aborted
             THEN /\ promises' = [promises EXCEPT ![p] =
                       [new EXCEPT !.state = "rejected", !.err = "aborted"]]
                  /\ UNCHANGED <<scheduled, activeTimers>>
             ELSE /\ promises' = [promises EXCEPT ![p] =
                       [new EXCEPT !.state = "pending"]]
                  /\ StartTimer(p)
       /\ delayLast' = [op |-> "wait", threw |-> FALSE]
       /\ UNCHANGED <<defaultDelay, delayRange, aborted>>

\* the callback of a timer of wait or execute, run by the runtime when the
\* timer is due
TimerFire(p) ==
    /\ p \in scheduled
    /\ scheduled' = scheduled \ {p}
    /\ activeTimers' = activeTimers \ {p}
    /\ promises' = [promises EXCEPT ![p] =
          IF aborted
          THEN [promises[p] EXCEPT !.state = "rejected", !.err = "abortedDuring"]
          ELSE IF promises[p].kind = "wait"
          THEN [promises[p] EXCEPT !.state = "resolved"]
          ELSE [promises[p] EXCEPT
                   !.fnCalled = TRUE,
                   !.state = IF promises[p].fnThrows THEN "rejected" ELSE "resolved",
                   !.err = IF promises[p].fnThrows THEN "fn" ELSE ""]]
    /\ UNCHANGED <<defaultDelay, delayRange, aborted, delayLast>>

\* abort() that empties activeTimers without clearTimeout
AbortEffect_TimersKeptByRuntime ==
    /\ scheduled' = scheduled
    /\ activeTimers' = {}
    /\ promises' = [p \in PromiseIds |->
          IF promises[p].state = "pending"
          THEN [promises[p] EXCEPT !.atAbort = TRUE]
          ELSE promises[p]]

\* the promises and timers after abort(): every timer of activeTimers is
\* cleared and the set emptied; no promise is settled
AbortEffect ==
    /\ scheduled' = scheduled \ activeTimers
    /\ activeTimers' = {}
    /\ promises' = [p \in PromiseIds |->
          IF promises[p].state = "pending"
          THEN [promises[p] EXCEPT !.atAbort = TRUE]
          ELSE promises[p]]

\* DelayController.abort()
Abort ==
    /\ aborted' = TRUE
    /\ AbortEffect
    /\ delayLast' = [op |-> "abort", threw |-> FALSE]
    /\ UNCHANGED <<defaultDelay, delayRange>>

\* DelayController.reset()
Reset ==
    /\ AbortEffect
    /\ defaultDelay' = 0
    /\ delayRange' = NoRange
    /\ aborted' = FALSE
    /\ delayLast' = [op |-> "reset", threw |-> FALSE]

\* the arguments the setters and wait are called with: numbers, a string
\* ('100') and no argument
S_100 == <<"1","0","0">>
DelayArgs == {Num(0 - 1), Num(0), Num(2), Str(S_100)}
WaitArgs == {Undefined, Num(0), Num(2)}

DelayNext ==
    \/ \E ms \in DelayArgs : SetDelay(ms) /\ UNCHANGED <<routerVars, mockerVars, scenarioVars, handlerVars, errorVars, schemaVars, loggerVars, auxVars>>
    \/ \E min \in DelayArgs, max \in DelayArgs :
          SetDelayRange(min, max) /\ UNCHANGED <<routerVars, mockerVars, scenarioVars, handlerVars, errorVars, schemaVars, loggerVars, auxVars>>
    \/ \E fnThrows \in BOOLEAN :
          Execute(fnThrows) /\ UNCHANGED <<routerVars, mockerVars, scenarioVars, handlerVars, errorVars, schemaVars, loggerVars, auxVars>>
    \/ \E ms \in WaitArgs : Wait(ms) /\ UNCHANGED <<routerVars, mockerVars, scenarioVars, handlerVars, errorVars, schemaVars, loggerVars, auxVars>>
    \/ \E p \in PromiseIds : TimerFire(p) /\ UNCHANGED <<routerVars, mockerVars, scenarioVars, handlerVars, errorVars, schemaVars, loggerVars, auxVars>>
    \/ Abort /\ UNCHANGED <<routerVars, mockerVars, scenarioVars, handlerVars, errorVars, schemaVars, loggerVars, auxVars>>
    \/ Reset /\ UNCHANGED <<routerVars, mockerVars, scenarioVars, handlerVars, errorVars, schemaVars, loggerVars, auxVars>>

(***************************************************************************)
(* ScenarioManager (src/src/scenario.js, lines 6-149).  A condition is one *)
(* of: 'always' (() => true), 'never' (() => false), 'throws'.             *)
(***************************************************************************)
ScenarioInit ==
    /\ scenarios = <<>>
    /\ activeScenarios = <<>>
    /\ scenarioLast = [op |-> "none", threw |-> FALSE]

\* the endpoint '*' of the global scope
S_star == <<"*">>

\* the object define stores under the name: config.condition || (() =>
\* true), config.response || null, config.statusCode || null
ScenarioRecord(name, config) ==
    [key |-> name,
     condition |-> IF config.condition = "none" THEN "always" ELSE config.condition,
     response |-> Or(config.response, Null),
     statusCode |-> Or(config.statusCode, Null),
     headers |-> Or(config.headers, Obj(<<>>)),
     enabled |-> FALSE]

\* ScenarioManager.define(name, config): the name, a JavaScript value, is
\* checked before the Map is written
ScenarioDefine(name, config) ==
    IF ~Truthy(name) \/ name.t /= "str"
    THEN /\ scenarioLast' = [op |-> "define", threw |-> TRUE]
         /\ UNCHANGED <<scenarios, activeScenarios>>
    ELSE /\ scenarios' = MapSet(scenarios, name.v, ScenarioRecord(name.v, config))
         /\ scenarioLast' = [op |-> "define", threw |-> FALSE]
         /\ UNCHANGED activeScenarios

\* activate(name, endpoint) with the endpoint's Set created before the
\* name is looked up
ScenarioActivate_SetFirst(name, endpoint) ==
    LET i == IndexOfKey(activeScenarios, endpoint)
        old == IF i = 0 THEN <<>> ELSE activeScenarios[i].names
        new == IF IndexOfKey(scenarios, name) = 0
                  \/ \E j \in 1..Len(old) : old[j] = name
               THEN old ELSE Append(old, name)
    IN /\ activeScenarios' =
             MapSet(activeScenarios, endpoint, [key |-> endpoint, names |-> new])
       /\ scenarioLast' = [op |-> "activate",
                           threw |-> IndexOfKey(scenarios, name) = 0]
       /\ UNCHANGED scenarios

\* ScenarioManager.activate(name, endpoint): a name that is not defined
\* throws; otherwise the name is added to the endpoint's Set, which is
\* created if it is missing
ScenarioActivate(name, endpoint) ==
    IF IndexOfKey(scenarios, name) = 0
    THEN /\ scenarioLast' = [op |-> "activate", threw |-> TRUE]
         /\ UNCHANGED <<scenarios, activeScenarios>>
    ELSE /\ LET i == IndexOfKey(activeScenarios, endpoint)
                old == IF i = 0 THEN <<>> ELSE activeScenarios[i].names
                new == IF \E j \in 1..Len(old) : old[j] = name THEN old
                       ELSE Append(old, name)
            IN activeScenarios' =
                   MapSet(activeScenarios, endpoint,
                          [key |-> endpoint, names |-> new])
         /\ scenarioLast' = [op |-> "activate", threw |-> FALSE]
         /\ UNCHANGED scenarios

\* deactivate(name, endpoint) removing the name from the Set of every scope
ScenarioDeactivate_EveryScope(name, endpoint) ==
    /\ activeScenarios' =
          [i \in 1..Len(activeScenarios) |->
              [activeScenarios[i] EXCEPT
                  !.names = SelectSeq(@, LAMBDA n : n /= name)]]
    /\ scenarioLast' = [op |-> "deactivate", threw |-> FALSE]
    /\ UNCHANGED scenarios

\* ScenarioManager.deactivate(name, endpoint): the name is deleted from the
\* endpoint's Set, if there is one
ScenarioDeactivate(name, endpoint) ==
    /\ activeScenarios' =
          [i \in 1..Len(activeScenarios) |->
              IF activeScenarios[i].key = endpoint
              THEN [activeScenarios[i] EXCEPT
                       !.names = SelectSeq(@, LAMBDA n : n /= name)]
              ELSE activeScenarios[i]]
    /\ scenarioLast' = [op |-> "deactivate", threw |-> FALSE]
    /\ UNCHANGED scenarios

\* reset() clearing the definitions too
ScenarioReset_ForgetDefinitions ==
    /\ activeScenarios' = <<>>
    /\ scenarios' = <<>>
    /\ scenarioLast' = [op |-> "reset", threw |-> FALSE]

\* ScenarioManager.reset(): this.activeScenarios.clear()
ScenarioReset ==
    /\ activeScenarios' = <<>>
    /\ scenarioLast' = [op |-> "reset", threw |-> FALSE]
    /\ UNCHANGED scenarios

\* the scenarios of the names of one scope that are still defined, in order
ScopeScenarios(scs, act, endpoint) ==
    LET i == IndexOfKey(act, endpoint)
        names == IF i = 0 THEN <<>> ELSE act[i].names
        defined == SelectSeq(names, LAMBDA n : IndexOfKey(scs, n) /= 0)
    IN [j \in 1..Len(defined) |-> scs[IndexOfKey(scs, defined[j])]]

\* getActiveScenarios(endpoint) collecting the endpoint's scenarios first
GetActiveScenarios_EndpointFirst(scs, act, endpoint) ==
    LET global == ScopeScenarios(scs, act, S_star)
        own == ScopeScenarios(scs, act, endpoint)
    IN own \o SelectSeq(global, LAMBDA sc :
                 ~\E j \in 1..Len(own) : own[j] = sc)

\* ScenarioManager.getActiveScenarios(endpoint): the global ones, then the
\* endpoint's ones that are not in the list yet
GetActiveScenarios(scs, act, endpoint) ==
    LET global == ScopeScenarios(scs, act, S_star)
        own == ScopeScenarios(scs, act, endpoint)
    IN global \o SelectSeq(own, LAMBDA sc :
                    ~\E j \in 1..Len(global) : global[j] = sc)

\* ScenarioManager.evaluate(endpoint, request): the first active scenario
\* whose condition returns a truthy value; one that throws is passed over
NoScenario == [key |-> <<>>, condition |-> "none", response |-> Null,
               statusCode |-> Null, headers |-> Obj(<<>>), enabled |-> FALSE]

\* a catch block that lets the condition's error out of evaluate
CatchConditionError_Rethrow(active, i) ==
    [threw |-> TRUE, scenario |-> NoScenario]

\* the loop of evaluate from the i-th active scenario on (lines 120-128):
\* a truthy condition returns the scenario, and the catch block of a
\* condition that throws logs a warning and lets the loop go on
RECURSIVE EvaluateFrom(_, _)
RECURSIVE CatchConditionError(_, _)
EvaluateFrom(active, i) ==
    IF i > Len(active) THEN [threw |-> FALSE, scenario |-> NoScenario]
    ELSE CASE active[i].condition = "always" ->
                 [threw |-> FALSE, scenario |-> active[i]]
           [] active[i].condition = "throws" -> CatchConditionError(active, i)
           [] OTHER -> EvaluateFrom(active, i + 1)

CatchConditionError(active, i) == EvaluateFrom(active, i + 1)

\* evaluate(endpoint, request): whether it threw, and what it returned
EvaluateOutcome(scs, act, endpoint) ==
    EvaluateFrom(GetActiveScenarios(scs, act, endpoint), 1)

Evaluate(scs, act, endpoint) == EvaluateOutcome(scs, act, endpoint).scenario

(***************************************************************************)
(* ResponseHandler (src/src/response-handler.js).                          *)
(***************************************************************************)

\* this.defaultDelay of a handler constructed without the delay option
HandlerDefaultDelay == 0

\* key.startsWith(prefix)
StartsWith(s, prefix) ==
    Len(s) >= Len(prefix) /\ SubSeq(s, 1, Len(prefix)) = prefix

S_params_dot == <<"p","a","r","a","m","s",".">>
S_count == <<"_","c","o","u","n","t">>

\* _resolveGenerator(identifier, context)
ResolveGenerator(identifier, params, rnd) ==
    IF StartsWith(identifier, S_params_dot)
    THEN LET name == SubSeq(identifier, 8, Len(identifier))
         IN IF name \in DOMAIN params THEN params[name] ELSE Undefined
    ELSE CASE GeneratorProperty(identifier) = "generator" ->
                 CallBuiltin(identifier, rnd)
           [] GeneratorProperty(identifier) = "inheritedFunction" ->
                 \* generators.hasOwnProperty(undefined)
                 Bool(FALSE)
           [] GeneratorProperty(identifier) = "inheritedObject" ->
                 \* a truthy object is called: TypeError, with no catch
                 Raised
           [] OTHER -> Str(<<"$">> \o identifier)

\* the length Array.from({length: count}) gives the array
ToLength(count) == IF count.t = "num" /\ count.v > 0 THEN count.v ELSE 0

\* an object value without the entries of one key: delete obj[key]
ObjDelete(obj, key) ==
    IF obj.t = "obj" THEN Obj(SelectSeq(obj.v, LAMBDA e : e.k /= key)) ELSE obj

\* schema[0]._count of an array schema (a primitive has no _count)
FirstCount(schema) ==
    IF Len(schema.v) > 0 /\ schema.v[1].t = "obj"
    THEN ObjGet(schema.v[1], S_count) ELSE Undefined

\* _processSchema(schema, context) and _processValue(value, context)
RECURSIVE ProcessSchema(_, _, _)
RECURSIVE ProcessValue(_, _, _)
ProcessSchema(schema, params, rnd) ==
    CASE schema.t = "arr" ->
            LET count == IF Truthy(FirstCount(schema))
                         THEN ToLength(FirstCount(schema)) ELSE 1
                itemSchema == IF Len(schema.v) > 0 /\ Truthy(schema.v[1])
                              THEN ObjDelete(schema.v[1], S_count) ELSE Obj(<<>>)
            IN Arr([i \in 1..count |-> ProcessSchema(itemSchema, params, rnd)])
      [] schema.t = "obj" ->
            LET kept == SelectSeq(schema.v, LAMBDA e : ~StartsWith(e.k, <<"_">>))
            IN Obj([i \in 1..Len(kept) |->
                      [k |-> kept[i].k, v |-> ProcessValue(kept[i].v, params, rnd)]])
      [] OTHER -> ProcessValue(schema, params, rnd)

ProcessValue(value, params, rnd) ==
    IF value.t = "str" /\ StartsWith(value.v, <<"$">>)
    THEN ResolveGenerator(SubSeq(value.v, 2, Len(value.v)), params, rnd)
    ELSE IF value.t \in {"obj", "arr"} THEN ProcessSchema(value, params, rnd)
    ELSE value

\* whether the evaluation of a value threw somewhere inside it: the
\* exception propagates through _processValue and _processSchema, neither
\* of which has a catch
RECURSIVE Raises(_)
Raises(value) ==
    CASE value.t = "raised" -> TRUE
      [] value.t = "obj" -> \E i \in 1..Len(value.v) : Raises(value.v[i].v)
      [] value.t = "arr" -> \E i \in 1..Len(value.v) : Raises(value.v[i])
      [] OTHER -> FALSE

\* what a call that evaluates the value completes with (the value is bound
\* so that it is computed once)
Completion(value) ==
    CHOOSE c \in {IF Raises(v) THEN Raised ELSE v : v \in {value}} : TRUE

\* the schema document after _processSchema has run on it: `delete
\* itemSchema._count` removes the count of the first element of every array
\* schema that is reached
RECURSIVE SchemaAfter(_)
SchemaAfter(schema) ==
    CASE schema.t = "arr" ->
            IF Len(schema.v) > 0 /\ Truthy(schema.v[1])
            THEN Arr(<<SchemaAfter(ObjDelete(schema.v[1], S_count))>>
                     \o Tail(schema.v))
            ELSE schema
      [] schema.t = "obj" ->
            Obj([i \in 1..Len(schema.v) |->
                   IF StartsWith(schema.v[i].k, <<"_">>) THEN schema.v[i]
                   ELSE [k |-> schema.v[i].k, v |-> SchemaAfter(schema.v[i].v)]])
      [] OTHER -> schema

\* a body function of a config: one that returns {ok: 'ok'} or one that
\* throws
Fn(behaviour) == [t |-> "fn", v |-> behaviour]

\* _generateBody(config, context): a schema is interpreted, a body function
\* is called and any other body returned as it is
GenerateBody(config, params, rnd) ==
    IF Truthy(config.schema)
    THEN Completion(ProcessSchema(config.schema, params, rnd))
    ELSE IF config.body.t = "fn"
    THEN (IF config.body.v = "throws" THEN Raised ELSE StaticBody)
    ELSE IF config.body.t /= "undefined" THEN config.body
    ELSE Null

S_status == <<"s","t","a","t","u","s">>
S_message == <<"m","e","s","s","a","g","e">>
S_error == <<"e","r","r","o","r">>

\* _handleError(errorConfig)
HandleError(errorConfig) ==
    LET status == IF errorConfig.t = "num" THEN errorConfig
                  ELSE IF errorConfig.t = "obj"
                  THEN Or(ObjGet(errorConfig, S_status), Num(500))
                  ELSE Num(500)
        message == IF errorConfig.t = "obj" THEN ObjGet(errorConfig, S_message)
                   ELSE Undefined
    IN [status |-> status.v,
        headers |-> Obj(<<>>),
        body |-> IF Truthy(message) THEN Obj(<<[k |-> S_error, v |-> message]>>)
                 ELSE Null]

\* config.delay ?? this.defaultDelay
EffectiveDelay(config) ==
    IF config.delay.t \in {"null", "undefined"} THEN HandlerDefaultDelay
    ELSE config.delay.v

\* the {status, headers, body} handle returns after body generation
Generated(config, params, rnd) ==
    [status |-> Or(config.status, Num(200)).v,
     headers |-> Or(config.headers, Obj(<<>>)),
     body |-> GenerateBody(config, params, rnd)]

\* the branch handle takes once it has the route's config (lines 24-33):
\* the error check comes first, the delay second
HandleBranch_DelayFirst(config) ==
    IF EffectiveDelay(config) > 0 THEN "delay"
    ELSE IF Truthy(config.error) THEN "error"
    ELSE "generate"

\* the branch with the delay stage entered for every delay that is not
\* negative
HandleBranch_DelayAtZero(config) ==
    IF Truthy(config.error) THEN "error"
    ELSE IF EffectiveDelay(config) >= 0 THEN "delay"
    ELSE "generate"

HandleBranch(config) ==
    IF Truthy(config.error) THEN "error"
    ELSE IF EffectiveDelay(config) > 0 THEN "delay"
    ELSE "generate"

\* the parts of the response of lines 38-42 that are objects of the config
\* itself: `config.headers || {}` is config.headers when there is one, and
\* _generateBody returns a static config.body as it is
SharedParts(config) ==
    {part \in {"headers"} : Truthy(config.headers)}
        \cup {part \in {"body"} : /\ ~Truthy(config.schema)
                                  /\ config.body.t \in {"obj", "arr"}}

\* the config object after one _generateBody call has run on it
ConfigAfter(config) ==
    IF Truthy(config.schema) THEN [config EXCEPT !.schema = SchemaAfter(@)]
    ELSE config

MaxRequests == 2
ReqIds == 1..MaxRequests

NoResponse == [status |-> 0, headers |-> Obj(<<>>), body |-> Null]

\* a handle call that has not been made yet
IdleRequest ==
    [pc |-> "idle", via |-> "none", method |-> <<>>, path |-> <<>>,
     key |-> <<>>, config |-> Config(Undefined, Undefined, Undefined,
                                     Undefined, Undefined),
     params |-> <<>>, resp |-> NoResponse, ran |-> {},
     shares |-> {}, touched |-> {}, error |-> "none"]

HandlerInit == requests = [r \in ReqIds |-> IdleRequest]

\* the calls are numbered in the order they are made
NextRequest ==
    IF \E r \in ReqIds : requests[r].pc = "idle"
    THEN CHOOSE r \in ReqIds :
            /\ requests[r].pc = "idle"
            /\ \A q \in ReqIds : requests[q].pc = "idle" => r <= q
    ELSE 0

\* a config that lives in a stale closure: the one of the call made last
LastCalledConfig(reqs, r) ==
    LET called == {q \in ReqIds : reqs[q].via /= "none"}
    IN reqs[CHOOSE q \in called : \A l \in called : l <= q].config

\* `config` of handle's frame: the local const destructured from the route
\* at line 22, which each call keeps across its await
CapturedConfig(reqs, r) == reqs[r].config

\* lines 36-42 for request r, whose frame is in reqs: the body is generated
\* from the captured config and the response returned, or the exception of
\* _generateBody leaves handle and its promise rejects; _processSchema's
\* delete changes the config object itself, which the route and every other
\* call that matched it hold too
Finish(r, reqs, rnd) ==
    LET config == CapturedConfig(reqs, r)
        key == reqs[r].key
        same(k, c) == k = key /\ c = config
        after == [q \in ReqIds |->
                    IF same(reqs[q].key, reqs[q].config)
                    THEN [reqs[q] EXCEPT !.config = ConfigAfter(config)]
                    ELSE reqs[q]]
    IN \E resp \in {Generated(config, reqs[r].params, rnd)} :
       /\ requests' =
            [after EXCEPT ![r] =
                IF resp.body = Raised
                THEN [@ EXCEPT !.pc = "rejected",
                               !.error = "generateBody",
                               !.ran = @ \cup {"generateBody"}]
                ELSE [@ EXCEPT !.pc = "done",
                               !.resp = resp,
                               !.shares = SharedParts(config),
                               !.ran = @ \cup {"generateBody"}]]
       /\ routes' = [i \in 1..Len(routes) |->
                        IF same(routes[i].key, routes[i].config)
                        THEN [routes[i] EXCEPT !.config = ConfigAfter(config)]
                        ELSE routes[i]]

\* router.match(method, path) followed, for a route, by
\* handler.handle(route): the synchronous part of handle, up to its await
\* or, without one, its return
HandleRoute(method, path) ==
    LET r == NextRequest
        route == Match(routes, method, path)
        started == [requests EXCEPT ![r] =
                       [@ EXCEPT !.via = "route", !.method = method,
                                 !.path = path, !.key = route.key,
                                 !.config = route.config,
                                 !.params = route.params,
                                 !.ran = {"errorCheck"}]]
    IN /\ r /= 0
       /\ IF ~route.found
          THEN /\ requests' = [requests EXCEPT ![r] =
                                  [@ EXCEPT !.pc = "notfound", !.via = "route",
                                            !.method = method, !.path = path]]
               /\ routes' = routes
          ELSE CASE HandleBranch(route.config) = "error" ->
                      /\ requests' =
                            [started EXCEPT ![r] =
                                [@ EXCEPT !.pc = "done",
                                          !.resp = HandleError(route.config.error),
                                          !.ran = @ \cup {"handleError"}]]
                      /\ routes' = routes
                 [] HandleBranch(route.config) = "delay" ->
                      /\ requests' =
                            [started EXCEPT ![r] =
                                [@ EXCEPT !.pc = "delaying",
                                          !.ran = @ \cup {"delay"}]]
                      /\ routes' = routes
                 [] OTHER -> \E rnd \in RandomDraws : Finish(r, started, rnd)
       /\ routerThrew' = routerThrew

\* the timer of _delay fires and handle resumes after its await
HandlerTimerFire(r) ==
    /\ requests[r].pc = "delaying"
    /\ \E rnd \in RandomDraws : Finish(r, requests, rnd)
    /\ routerThrew' = routerThrew

(***************************************************************************)
(* Logger (src/unnamed/part_005, lines 13-148) as createMockServer uses    *)
(* it. The clock of the timestamps is not modelled.                        *)
(***************************************************************************)
LevelNone == 0
LevelInfo == 3
LoggerMaxHistory == 100

\* createMockServer without the logging option: logger is null
NoLogger == [enabled |-> FALSE, level |-> LevelNone, onLog |-> "none",
             output |-> "console", history |-> <<>>]

\* the loggerOptions of the model: a level or none, an onLog callback that
\* returns or throws or none, and console or a sink whose methods throw
LoggerOptions ==
    [level : {Undefined, Num(LevelNone)},
     onLog : {"none", "returns", "throws"},
     output : {"console", "throws"}]

\* createLogger(options): new Logger(options)
CreateLogger(options) ==
    [enabled |-> TRUE,
     level |-> IF options.level.t /= "undefined" THEN options.level.v
               ELSE LevelInfo,
     onLog |-> options.onLog,
     output |-> options.output,
     history |-> <<>>]

\* Logger._log(level, levelName, message, data): the logger after the call
\* and whether the call threw
LoggerLog(lg, level, levelName, message) ==
    IF lg.level < level THEN [threw |-> FALSE, logger |-> lg]
    ELSE LET pushed == Append(lg.history,
                              [level |-> levelName, message |-> message])
             kept == IF Len(pushed) > LoggerMaxHistory THEN Tail(pushed)
                     ELSE pushed
         IN [threw |-> lg.onLog = "throws" \/ lg.output = "throws",
             logger |-> [lg EXCEPT !.history = kept]]

\* `--> ${request.method} ${request.url}` for the request createMockServer
\* passes, which is the method string: both properties are undefined
S_request_line ==
    <<"-","-",">"," ","u","n","d","e","f","i","n","e","d"," ",
      "u","n","d","e","f","i","n","e","d">>

\* Logger.logRequest(request): this.info(...)
LogRequest(lg) == LoggerLog(lg, LevelInfo, "INFO", S_request_line)

\* what the handle of createMockServer completes with under a logger:
\* logRequest when there is a logger, then handler.handle(router, method,
\* path, options), where `route` is the Router, whose `config` is
\* undefined: reading config.error throws a TypeError. handle has no
\* try/catch, so that its promise rejects with the first exception
ServerOutcome(lg) ==
    LET logged == IF lg.enabled THEN LogRequest(lg)
                  ELSE [threw |-> FALSE, logger |-> lg]
    IN [pc |-> "rejected",
        error |-> IF logged.threw THEN "logRequest" ELSE "TypeError",
        ran |-> {call \in {"logRequest"} : lg.enabled}
                   \cup {call \in {"handle"} : ~logged.threw},
        logger |-> logged.logger]

\* createMockServer(config): the server and its logger are constructed
\* before a route is registered or a request handled
CreateMockServer(logging, loggerOptions) ==
    /\ routes = <<>>
    /\ \A r \in ReqIds : requests[r].pc = "idle"
    /\ logger = NoLogger
    /\ logger' = IF logging THEN CreateLogger(loggerOptions) ELSE NoLogger

\* createMockServer's handle(method, path, options)
ServerHandle(method, path) ==
    LET r == NextRequest
        outcome == ServerOutcome(logger)
    IN /\ r /= 0
       /\ requests' = [requests EXCEPT ![r] =
                          [@ EXCEPT !.pc = outcome.pc, !.via = "server",
                                    !.method = method, !.path = path,
                                    !.error = outcome.error,
                                    !.ran = outcome.ran]]
       /\ logger' = outcome.logger
       /\ UNCHANGED routerVars

\* the other entries of LOG_LEVELS
LevelError == 1
LevelWarn == 2
LevelDebug == 4
MaxLogs == 3

S_NONE == <<"N","O","N","E">>
S_ERROR == <<"E","R","R","O","R">>
S_WARN == <<"W","A","R","N">>
S_INFO == <<"I","N","F","O">>
S_DEBUG == <<"D","E","B","U","G">>

\* LOG_LEVELS[name]: the number of the entry, undefined for any other name
LogLevels(name) ==
    CASE name = S_NONE -> Num(LevelNone)
      [] name = S_ERROR -> Num(LevelError)
      [] name = S_WARN -> Num(LevelWarn)
      [] name = S_INFO -> Num(LevelInfo)
      [] name = S_DEBUG -> Num(LevelDebug)
      [] OTHER -> Undefined

\* LOG_LEVELS[level.toUpperCase()] || LOG_LEVELS.INFO
LevelForName(name) == Or(LogLevels(ToUpperCase(name)), Num(LevelInfo)).v

\* Logger.setLevel(level), for a string or a number
LoggerSetLevel(lg, level) ==
    [lg EXCEPT !.level = IF level.t = "str" THEN LevelForName(level.v)
                         ELSE level.v]

\* the methods error, warn, info and debug: the level and the level name
\* each passes to _log
LogMethods ==
    {[level |-> LevelError, levelName |-> "ERROR"],
     [level |-> LevelWarn, levelName |-> "WARN"],
     [level |-> LevelInfo, levelName |-> "INFO"],
     [level |-> LevelDebug, levelName |-> "DEBUG"]}

\* new Logger(), with the default options
NewLogger ==
    /\ logger = NoLogger
    /\ logger' = CreateLogger([level |-> Undefined, onLog |-> "none",
                               output |-> "console"])

\* logger.setLevel(level)
SetLevel(level) ==
    /\ logger.enabled
    /\ logger' = LoggerSetLevel(logger, level)

\* logger.error(message), .warn, .info or .debug
LogAt(method) ==
    /\ logger.enabled
    /\ Len(logger.history) < MaxLogs
    /\ logger' = LoggerLog(logger, method.level, method.levelName, S_ok).logger

LoggerInit == logger = NoLogger

S_seen == <<"s","e","e","n">>

\* obj[key] = value
ObjSet(obj, key, value) ==
    IF \E i \in 1..Len(obj.v) : obj.v[i].k = key
    THEN Obj([i \in 1..Len(obj.v) |->
                IF obj.v[i].k = key THEN [k |-> key, v |-> value] ELSE obj.v[i]])
    ELSE Obj(Append(obj.v, [k |-> key, v |-> value]))

\* a part of a response or of a config with the caller's property set
Touch(record, part) ==
    IF part = "headers"
    THEN [record EXCEPT !.headers = ObjSet(@, S_seen, Str(S_ok))]
    ELSE [record EXCEPT !.body = ObjSet(@, S_seen, Str(S_ok))]

\* the caller of handle sets a property on the headers or the body of the
\* response it was returned: `response.headers.seen = 'ok'`. The object may
\* be the one the config holds (lines 38-42 and 53-57), and then the route,
\* the frames of the calls that matched it and the responses that were
\* returned the same object all see the property
CallerMutates(r, part) ==
    LET req == requests[r]
        same(k, c) == k = req.key /\ c = req.config
        shared == part \in req.shares
    IN /\ req.pc = "done"
       /\ part \notin req.touched
       /\ (IF part = "headers" THEN req.resp.headers ELSE req.resp.body).t = "obj"
       /\ requests' =
            [q \in ReqIds |->
               IF q = r
               THEN [req EXCEPT !.resp = Touch(@, part),
                                !.config = IF shared THEN Touch(@, part) ELSE @,
                                !.touched = @ \cup {part}]
               ELSE IF shared /\ same(requests[q].key, requests[q].config)
               THEN [requests[q] EXCEPT
                        !.config = Touch(@, part),
                        !.resp = IF part \in requests[q].shares
                                 THEN Touch(@, part) ELSE @]
               ELSE requests[q]]
       /\ routes' = [i \in 1..Len(routes) |->
                        IF shared /\ same(routes[i].key, routes[i].config)
                        THEN [routes[i] EXCEPT !.config = Touch(@, part)]
                        ELSE routes[i]]
       /\ routerThrew' = routerThrew

(***************************************************************************)
(* Error simulation: createError, simulateRandomError (src/src/errors.js,  *)
(* lines 57-88), simulateError (src/src/errors.js, lines 231-245) and      *)
(* createErrorSimulator, shouldError (src/unnamed/part_002, lines 68-89).  *)
(* A value of Math.random() is d / DrawUnits for a d of 0..DrawUnits-1,    *)
(* and a probability is p / DrawUnits for a p of 0..DrawUnits.             *)
(***************************************************************************)
DrawUnits == 4
Draws == 0..(DrawUnits - 1)
Probabilities == 0..DrawUnits

\* Math.floor(Math.random() * length), as an index that starts at 1
FloorIndex(draw, length) == (draw * length) \div DrawUnits + 1

\* what a simulator call comes to: it returns null or undefined, returns an
\* error value, or throws
NoError == [kind |-> "null", status |-> 0]
Returned(status) == [kind |-> "returned", status |-> status]
Thrown(status) == [kind |-> "thrown", status |-> status]

\* HttpErrors: the presets the model carries
HttpErrorPresets == {"INTERNAL_SERVER_ERROR", "NOT_FOUND", "SERVICE_UNAVAILABLE"}
HttpErrors(preset) ==
    CASE preset = "INTERNAL_SERVER_ERROR" -> 500
      [] preset = "NOT_FOUND" -> 404
      [] preset = "SERVICE_UNAVAILABLE" -> 503

\* createError(preset) of lines 57-68: an unknown preset throws an Error,
\* which has no status
CreateError(preset) ==
    IF preset \in HttpErrorPresets THEN Returned(HttpErrors(preset))
    ELSE Thrown(0)

\* simulateRandomError({probability, errors}) for the draws of its two
\* Math.random() calls
SimulateRandomError(probability, errors, draw, pick) ==
    IF draw > probability THEN NoError
    ELSE CreateError(errors[FloorIndex(pick, Len(errors))])

\* commonErrors: the names the model carries
CommonErrorNames == {"internalServer", "notFound"}
CommonErrors(name) ==
    CASE name = "internalServer" -> 500
      [] name = "notFound" -> 404

\* an `error` of a simulateError config: a name, a MockError or nothing
ErrorName(name) == [t |-> "name", v |-> name]
ErrorObject(status) == [t |-> "error", v |-> status]
ErrorMissing == [t |-> "undefined", v |-> 0]

\* simulateError(config) of lines 231-245
SimulateError(probability, error, draw) ==
    IF probability.t /= "num" THEN NoError
    ELSE IF draw > probability.v THEN NoError
    ELSE IF error.t = "name"
    THEN IF error.v \in CommonErrorNames THEN Returned(CommonErrors(error.v))
         ELSE NoError
    ELSE IF error.t = "error" THEN Returned(error.v)
    ELSE NoError

\* the function createErrorSimulator({rate, status}) of part_002 returns,
\* called once; status is given as the list of its candidates
ErrorSimulator(rate, status, draw, pick) ==
    IF draw < rate THEN Thrown(status[FloorIndex(pick, Len(status))])
    ELSE NoError

\* shouldError(rate)
ShouldError(rate, draw) == draw < rate

NoSimulation ==
    [fn |-> "none", probability |-> 0, draw |-> 0, pick |-> 0,
     candidates |-> {}, configured |-> FALSE, out |-> NoError]

ErrorInit == simLast = NoSimulation

PresetLists ==
    {<<"INTERNAL_SERVER_ERROR">>, <<"NOT_FOUND", "SERVICE_UNAVAILABLE">>,
     <<"TEAPOT">>}
ErrorInputs == {ErrorName("internalServer"), ErrorName("teapot"),
                ErrorObject(418), ErrorMissing}
StatusLists == {<<500>>, <<502, 503>>}

\* the statuses a list of presets stands for
PresetStatuses(errors) ==
    {HttpErrors(errors[i]) : i \in {j \in 1..Len(errors) : errors[j] \in HttpErrorPresets}}

CallSimulateRandomError ==
    \E probability \in Probabilities, errors \in PresetLists,
       draw \in Draws, pick \in Draws :
        simLast' = [fn |-> "simulateRandomError", probability |-> probability,
                    draw |-> draw, pick |-> pick,
                    candidates |-> PresetStatuses(errors),
                    configured |-> \A i \in 1..Len(errors) :
                                      errors[i] \in HttpErrorPresets,
                    out |-> SimulateRandomError(probability, errors, draw, pick)]

CallSimulateError ==
    \E probability \in Probabilities, error \in ErrorInputs, draw \in Draws :
        simLast' = [fn |-> "simulateError", probability |-> probability,
                    draw |-> draw, pick |-> 0,
                    candidates |-> IF error.t = "error" THEN {error.v}
                                   ELSE IF error.t = "name" /\ error.v \in CommonErrorNames
                                   THEN {CommonErrors(error.v)} ELSE {},
                    configured |-> \/ error.t = "error"
                                   \/ error.t = "name" /\ error.v \in CommonErrorNames,
                    out |-> SimulateError(Num(probability), error, draw)]

CallErrorSimulator ==
    \E rate \in Probabilities, status \in StatusLists,
       draw \in Draws, pick \in Draws :
        simLast' = [fn |-> "createErrorSimulator", probability |-> rate,
                    draw |-> draw, pick |-> pick,
                    candidates |-> {status[i] : i \in 1..Len(status)},
                    configured |-> TRUE,
                    out |-> ErrorSimulator(rate, status, draw, pick)]

CallShouldError ==
    \E rate \in Probabilities, draw \in Draws :
        simLast' = [fn |-> "shouldError", probability |-> rate,
                    draw |-> draw, pick |-> 0, candidates |-> {},
                    configured |-> TRUE,
                    out |-> [kind |-> IF ShouldError(rate, draw) THEN "true"
                                      ELSE "false",
                             status |-> 0]]

(***************************************************************************)
(* Repeated interpretation of one schema document: by a Schema object      *)
(* (src/src/schema.js, lines 7-160), which keeps its definition, and by    *)
(* ResponseHandler._processSchema (src/src/response-handler.js, lines      *)
(* 65-90) on the schema of a registered endpoint, which it is handed by    *)
(* reference.                                                              *)
(***************************************************************************)
MaxRuns == 3

S_tags == <<"t","a","g","s">>
S_dollar_firstName == <<"$">> \o S_firstName

\* {id: '$params.id', name: '$firstName', tags: [{_count: 2, ok: 'ok'}]}
FastSchema ==
    Obj(<<[k |-> S_id, v |-> Str(S_dollar_params_id)],
          [k |-> S_name, v |-> Str(S_dollar_firstName)],
          [k |-> S_tags, v |-> Arr(<<Obj(<<[k |-> S_count, v |-> Num(2)],
                                           [k |-> S_ok, v |-> Str(S_ok)]>>)>>)]>>)

SchemaInit == interp = [kind |-> "none", doc |-> Undefined, outs |-> <<>>]

S_items == <<"i","t","e","m","s">>
S_meta == <<"_","m","e","t","a">>
S_x == <<"x">>

\* {items: {_repeat: count, _template: {ok: 'ok'}}}
RepeatDoc(count) ==
    Obj(<<[k |-> S_items,
           v |-> Obj(<<[k |-> S_repeat, v |-> count],
                       [k |-> S_template, v |-> StaticBody]>>)]>>)
RepeatCounts == {Num(0), Num(0 - 5), Num(1), Num(2), Num(3), Str(S_x)}

\* {_meta: 'x', ok: 'ok'}
MetaDoc == Obj(<<[k |-> S_meta, v |-> Str(S_x)], [k |-> S_ok, v |-> Str(S_ok)]>>)

\* {tags: [{_count: 2, ok: 'ok'}]}
CountDoc ==
    Obj(<<[k |-> S_tags, v |-> Arr(<<Obj(<<[k |-> S_count, v |-> Num(2)],
                                           [k |-> S_ok, v |-> Str(S_ok)]>>)>>)]>>)

\* {ok: 'ok', tags: ['ok', {ok: 'ok'}]}
NestedDoc ==
    Obj(<<[k |-> S_ok, v |-> Str(S_ok)],
          [k |-> S_tags, v |-> Arr(<<Str(S_ok), StaticBody>>)]>>)

\* {tags: []}
EmptyDoc == Obj(<<[k |-> S_tags, v |-> Arr(<<>>)]>>)

S_nope == <<"n","o","p","e">>

\* the reference to a generator in the placeholder syntax of Schema and in
\* that of the ResponseHandler
Braces(name) == Str(<<"{","{">> \o name \o <<"}","}">>)
Dollar(name) == Str(<<"$">> \o name)

\* {name: reference, ok: 'ok'}
ReferenceDoc(reference) ==
    Obj(<<[k |-> S_name, v |-> reference], [k |-> S_ok, v |-> Str(S_ok)]>>)

\* references to a generator that does not exist and to one whose call
\* throws
SchemaReferences == {Braces(S_nope), Braces(S_hasOwnProperty)}
HandlerReferences == {Dollar(S_nope), Dollar(S_proto)}

SchemaDocs ==
    {RepeatDoc(c) : c \in RepeatCounts}
        \cup {MetaDoc, CountDoc, NestedDoc, UserSchema, FastSchema, EmptyDoc}
        \cup {ReferenceDoc(ref) : ref \in SchemaReferences \cup HandlerReferences}

\* createSchema(definition), for a definition that is an object
CreateSchema(definition) ==
    interp' = [kind |-> "Schema", doc |-> definition, outs |-> <<>>]

\* Schema.generate(): processValue(this.definition)
SchemaGenerate ==
    /\ interp.kind = "Schema"
    /\ Len(interp.outs) < MaxRuns
    /\ \E rnd \in RandomDraws :
          interp' = [interp EXCEPT
                        !.outs = Append(@, SchemaProcessValue(interp.doc, rnd))]

\* an endpoint is registered with the schema for the ResponseHandler
RegisterSchema(schema) ==
    interp' = [kind |-> "ResponseHandler", doc |-> schema, outs |-> <<>>]

\* _processSchema(schema, context) on the registered schema, for a request
\* without path parameters: the document is the object the delete acts on
HandlerProcessSchema ==
    /\ interp.kind = "ResponseHandler"
    /\ Len(interp.outs) < MaxRuns
    /\ \E rnd \in RandomDraws :
          interp' = [interp EXCEPT
                        !.outs = Append(@, Completion(ProcessSchema(interp.doc,
                                                                    <<>>, rnd))),
                        !.doc = SchemaAfter(@)]

SchemaNext ==
    \/ \E definition \in SchemaDocs :
          /\ CreateSchema(definition)
          /\ UNCHANGED <<routerVars, mockerVars, delayVars, scenarioVars, handlerVars, errorVars, loggerVars, auxVars>>
    \/ /\ SchemaGenerate
       /\ UNCHANGED <<routerVars, mockerVars, delayVars, scenarioVars, handlerVars, errorVars, loggerVars, auxVars>>
    \/ \E schema \in SchemaDocs :
          /\ RegisterSchema(schema)
          /\ UNCHANGED <<routerVars, mockerVars, delayVars, scenarioVars, handlerVars, errorVars, loggerVars, auxVars>>
    \/ /\ HandlerProcessSchema
       /\ UNCHANGED <<routerVars, mockerVars, delayVars, scenarioVars, handlerVars, errorVars, loggerVars, auxVars>>

(***************************************************************************)
(* The sequence generator (src/src/generators.js, lines 134-152).          *)
(* sequence.counters is a plain object: a name it has no own property for  *)
(* is looked up in Object.prototype. A call runs to its end without an     *)
(* await, so that no other call interleaves with it.                       *)
(***************************************************************************)
MaxCalls == 3

S_orders == <<"o","r","d","e","r","s">>
S_users == <<"u","s","e","r","s">>
S_constructor == <<"c","o","n","s","t","r","u","c","t","o","r">>

\* the counter names of the model: two ordinary ones, the empty string and
\* the name of a property every object inherits
CounterNames == {S_orders, S_users, <<>>, S_constructor}

\* the object has no own property of the name
Absent == [t |-> "absent"]

\* sequence.counters[key]
CounterGet(own, key) ==
    IF own[key] /= Absent THEN own[key]
    ELSE IF key = S_constructor THEN Fn("inherited")
    ELSE Undefined

\* ++value: the value is converted to a number and one added
Increment(value) == IF value.t = "num" THEN Num(value.v + 1) ELSE NaN

\* sequence(name), for a name that is a string
SequenceCall(name) ==
    LET current == CounterGet(counters, name)
        started == IF ~Truthy(current) THEN Num(0) ELSE current
    IN /\ seqCalls[name] < MaxCalls
       /\ counters' = [counters EXCEPT ![name] = Increment(started)]
       /\ seqLast' = [op |-> "sequence", name |-> name,
                      returned |-> Increment(started)]
       /\ seqCalls' = [seqCalls EXCEPT ![name] = @ + 1]

\* sequence.reset(name), for a name that is a string or is not given: a
\* falsy name replaces the whole object
SequenceReset(name) ==
    /\ counters' = IF Truthy(name) THEN [counters EXCEPT ![name.v] = Absent]
                   ELSE [n \in CounterNames |-> Absent]
    /\ seqLast' = [op |-> "reset", name |-> IF name.t = "str" THEN name.v ELSE <<>>,
                   returned |-> Undefined]
    /\ seqCalls' = IF name.t = "str" THEN [seqCalls EXCEPT ![name.v] = 0]
                   ELSE [n \in CounterNames |-> 0]

SequenceInit ==
    /\ counters = [n \in CounterNames |-> Absent]
    /\ seqLast = [op |-> "none", name |-> <<>>, returned |-> Undefined]
    /\ seqCalls = [n \in CounterNames |-> 0]

(***************************************************************************)
(* StateStore (src/src/state.js, lines 120-276), for states that are       *)
(* objects, null or primitives and paths that lead through objects. The    *)
(* manager has no middleware that could observe the calls. Class bodies    *)
(* are strict code: a write to a property of a primitive throws.           *)
(***************************************************************************)
MaxOps == 4
MaxLongOps == 52
StoreMaxHistory == 50

\* _clone(value): JSON.parse(JSON.stringify(value)) of what is neither null
\* nor undefined: an object loses its undefined properties, an undefined
\* or NaN array element becomes null
RECURSIVE Clone(_)
Clone(value) ==
    CASE value.t = "obj" ->
            LET kept == SelectSeq(value.v, LAMBDA e : e.v.t /= "undefined")
            IN Obj([i \in 1..Len(kept) |->
                      [k |-> kept[i].k, v |-> Clone(kept[i].v)]])
      [] value.t = "arr" ->
            Arr([i \in 1..Len(value.v) |->
                   IF value.v[i].t \in {"undefined", "nan"} THEN Null
                   ELSE Clone(value.v[i])])
      [] value.t = "nan" -> Null
      [] OTHER -> value

\* getState()
GetState(st) == Clone(st.state)

\* _pushHistory() that never discards
PushHistory_Unbounded(st) ==
    [st EXCEPT !.history = Append(st.history, Clone(st.state))]

\* _pushHistory()
PushHistory(st) ==
    LET pushed == Append(st.history, Clone(st.state))
    IN [st EXCEPT !.history = IF Len(pushed) > StoreMaxHistory
                              THEN Tail(pushed) ELSE pushed]

\* get(path), the path split at its dots
RECURSIVE Walk(_, _)
Walk(value, keys) ==
    IF keys = <<>> THEN value
    ELSE IF value.t \in {"null", "undefined"} THEN Undefined
    ELSE Walk(IF value.t = "obj" THEN ObjGet(value, Head(keys)) ELSE Undefined,
              Tail(keys))

StoreGet(st, keys) == Clone(Walk(st.state, keys))

\* the loop and the assignment of set(path, value) on a target: the target
\* after them and whether they threw a TypeError (null has no properties
\* to read, a primitive none to write)
RECURSIVE Assign(_, _, _)
Assign(target, keys, value) ==
    IF target.t /= "obj" THEN [threw |-> TRUE, v |-> target]
    ELSE IF Len(keys) = 1
    THEN [threw |-> FALSE, v |-> ObjSet(target, Head(keys), value)]
    ELSE LET child == IF ObjGet(target, Head(keys)).t = "undefined"
                      THEN Obj(<<>>) ELSE ObjGet(target, Head(keys))
             inner == Assign(child, Tail(keys), value)
         IN [threw |-> inner.threw,
             v |-> ObjSet(target, Head(keys), inner.v)]

\* what a call leaves: the store, whether it threw and what it returned
Outcome(st, threw, returned) ==
    [store |-> st, threw |-> threw, returned |-> returned]

\* setState(newState)
SetState(st, newState) ==
    Outcome([PushHistory(st) EXCEPT !.state = Clone(newState)], FALSE, Undefined)

\* {...a, ...b} of two objects
Spread(a, b) ==
    LET RECURSIVE Merge(_, _)
        Merge(acc, i) == IF i > Len(b.v) THEN acc
                         ELSE Merge(ObjSet(acc, b.v[i].k, b.v[i].v), i + 1)
    IN Merge(a, 1)

\* update(updates)
Update(st, updates) ==
    IF st.state.t /= "obj" THEN Outcome(st, TRUE, Undefined)
    ELSE Outcome([PushHistory(st) EXCEPT
                     !.state = Spread(st.state, Clone(updates))],
                 FALSE, Undefined)

\* set(path, value): the history is pushed before the path is walked
StoreSet(st, keys, value) ==
    LET assigned == Assign(st.state, keys, Clone(value))
    IN Outcome([PushHistory(st) EXCEPT !.state = assigned.v],
               assigned.threw, Undefined)

\* push(path, item)
StorePush(st, keys, item) ==
    LET arr == StoreGet(st, keys)
    IN IF arr.t /= "arr" THEN Outcome(st, TRUE, Undefined)
       ELSE StoreSet(st, keys, Arr(Append(arr.v, Clone(item))))

\* remove(path, predicate), for a predicate `item => item === wanted`:
\* without a match nothing is set
StoreRemove(st, keys, wanted) ==
    LET arr == StoreGet(st, keys)
        hits == IF arr.t = "arr" THEN {i \in 1..Len(arr.v) : arr.v[i] = wanted}
                ELSE {}
    IN IF arr.t /= "arr" THEN Outcome(st, TRUE, Undefined)
       ELSE IF hits = {} THEN Outcome(st, FALSE, Undefined)
       ELSE LET index == CHOOSE i \in hits : \A j \in hits : i <= j
                rest == SubSeq(arr.v, 1, index - 1)
                           \o SubSeq(arr.v, index + 1, Len(arr.v))
            IN [StoreSet(st, keys, Arr(rest)) EXCEPT !.returned = arr.v[index]]

\* reset()
StoreReset(st) ==
    Outcome([PushHistory(st) EXCEPT !.state = Clone(st.initialState)],
            FALSE, Undefined)

\* undo()
StoreUndo(st) ==
    IF Len(st.history) = 0 THEN Outcome(st, FALSE, Bool(FALSE))
    ELSE Outcome([st EXCEPT !.state = st.history[Len(st.history)],
                            !.history = SubSeq(@, 1, Len(@) - 1)],
                 FALSE, Bool(TRUE))

S_n == <<"n">>

\* {items: [], n: 1}
StoreInitialState ==
    Obj(<<[k |-> S_items, v |-> Arr(<<>>)], [k |-> S_n, v |-> Num(1)]>>)

\* new StateStore(name, initialState, manager)
NewStore(initialState) ==
    [state |-> Clone(initialState), initialState |-> Clone(initialState),
     history |-> <<>>]

\* the mutating calls of the model, by name and arguments
MutatingCalls ==
    {[op |-> "setState", keys |-> <<>>, arg |-> v] :
        v \in {Obj(<<[k |-> S_n, v |-> Num(2)]>>), Null}}
    \cup {[op |-> "update", keys |-> <<>>,
           arg |-> Obj(<<[k |-> S_x, v |-> Num(2)]>>)]}
    \cup {[op |-> "set", keys |-> ks, arg |-> v] :
             ks \in {<<S_n>>, <<S_n, S_x>>}, v \in {Num(3), Undefined}}
    \cup {[op |-> "push", keys |-> <<S_items>>, arg |-> Str(S_ok)]}
    \cup {[op |-> "remove", keys |-> <<S_items>>, arg |-> v] :
             v \in {Str(S_ok), Str(S_x)}}
    \cup {[op |-> "reset", keys |-> <<>>, arg |-> Undefined]}

\* the outcome of a mutating call on the store
Apply(st, call) ==
    CASE call.op = "setState" -> SetState(st, call.arg)
      [] call.op = "update" -> Update(st, call.arg)
      [] call.op = "set" -> StoreSet(st, call.keys, call.arg)
      [] call.op = "push" -> StorePush(st, call.keys, call.arg)
      [] call.op = "remove" -> StoreRemove(st, call.keys, call.arg)
      [] OTHER -> StoreReset(st)

\* a mutating call is made: when it returns, what getState() gave before it
\* is what an undo is to restore
MutateWithin(call, limit) ==
    LET outcome == Apply(store, call)
    IN /\ storeLast.calls < limit
       /\ store' = outcome.store
       /\ storeLast' = [op |-> call.op, threw |-> outcome.threw,
                        returned |-> outcome.returned,
                        before |-> GetState(store),
                        hadHistory |-> Len(store.history) > 0,
                        hadTrail |-> Len(storeTrail) > 0,
                        expected |-> Undefined,
                        calls |-> storeLast.calls + 1]
       /\ storeTrail' = IF outcome.threw THEN storeTrail
                        ELSE Append(storeTrail, GetState(store))

\* undo() is called
UndoWithin(limit) ==
    LET outcome == StoreUndo(store)
    IN /\ storeLast.calls < limit
       /\ store' = outcome.store
       /\ storeLast' = [op |-> "undo", threw |-> FALSE,
                        returned |-> outcome.returned,
                        before |-> GetState(store),
                        hadHistory |-> Len(store.history) > 0,
                        hadTrail |-> Len(storeTrail) > 0,
                        expected |-> IF Len(storeTrail) > 0
                                     THEN storeTrail[Len(storeTrail)]
                                     ELSE Undefined,
                        calls |-> storeLast.calls + 1]
       /\ storeTrail' = IF Len(storeTrail) > 0
                        THEN SubSeq(storeTrail, 1, Len(storeTrail) - 1)
                        ELSE storeTrail

Mutate(call) == MutateWithin(call, MaxOps)

Undo == UndoWithin(MaxOps)

\* store.set('n', store.get('n') + 1): a change that differs from every
\* change before it
SetNext == [op |-> "set", keys |-> <<S_n>>,
            arg |-> Num(StoreGet(store, <<S_n>>).v + 1)]

StoreInit ==
    /\ store = NewStore(StoreInitialState)
    /\ storeLast = [op |-> "none", threw |-> FALSE, returned |-> Undefined,
                    before |-> Undefined, hadHistory |-> FALSE,
                    hadTrail |-> FALSE, expected |-> Undefined, calls |-> 0]
    /\ storeTrail = <<>>

(***************************************************************************)
(* InterceptorChain (src/src/schema.js, lines 173-240). execute is an      *)
(* async function: it runs up to the await of an interceptor's result and  *)
(* resumes in a later turn, and use, remove and clear can be called in     *)
(* between. Its for...of loop reads the array it started on by index, at   *)
(* the length the array has then.                                          *)
(***************************************************************************)
MaxChain == 3
MaxDisturbances == 1

S_y == <<"y">>
S_interceptorError == <<"i","n","t","e","r","c","e","p","t","o","r",
                        "E","r","r","o","r">>

\* the interceptors of the model: two that return an object, one that
\* returns undefined, one that throws and an async one that rejects
Interceptors == {"first", "second", "nothing", "throws", "rejects"}

\* what the interceptor returns, or its promise resolves with
InterceptorResult(fn) ==
    CASE fn = "first" -> Obj(<<[k |-> S_x, v |-> Num(1)]>>)
      [] fn = "second" -> Obj(<<[k |-> S_x, v |-> Num(2)],
                                [k |-> S_y, v |-> Num(1)]>>)
      [] OTHER -> Undefined

\* the error an interceptor throws or rejects with
ErrorOf(fn) == [t |-> "error", v |-> fn]

\* no execute call has been made
NoExecution ==
    [state |-> "none", detached |-> FALSE, array |-> <<>>, index |-> 0,
     pending |-> "none", initial |-> Obj(<<>>), context |-> Obj(<<>>),
     calls |-> <<>>, registered |-> <<>>, disturbances |-> 0]

\* use, remove and clear are called before the execute call of the model
\* and, a bounded number of times, while it is in flight
CanModify ==
    \/ execution.state = "none"
    \/ execution.state = "awaiting" /\ execution.disturbances < MaxDisturbances

\* the execution in flight, if there is one, has seen another modification
Disturbed(exe) ==
    IF exe.state = "awaiting" THEN [exe EXCEPT !.disturbances = @ + 1] ELSE exe

\* the array the loop of the execution in flight iterates: this.interceptors
\* as long as clear() has not replaced it
IteratedArray(exe, chain) == IF exe.detached THEN exe.array ELSE chain

\* a catch without the break: the error is recorded and the loop goes on
\* with the next interceptor
Caught_KeepGoing(exe, fn) ==
    [exe EXCEPT !.state = "awaiting", !.pending = "nothing",
                !.context = ObjSet(@, S_interceptorError, ErrorOf(fn))]

\* catch (error): context.interceptorError = error; break; return context
Caught(exe, fn) ==
    [exe EXCEPT !.state = "resolved", !.pending = "none",
                !.context = ObjSet(@, S_interceptorError, ErrorOf(fn))]

\* the for...of loop from its next index to the await of an interceptor's
\* result, to the catch of what the interceptor threw, or to the return
Loop(exe, chain) ==
    LET array == IteratedArray(exe, chain)
    IN IF exe.index > Len(array)
       THEN [exe EXCEPT !.state = "resolved", !.pending = "none"]
       ELSE LET fn == array[exe.index]
                called == [exe EXCEPT
                              !.calls = Append(@, [fn |-> fn,
                                                   context |-> exe.context]),
                              !.index = @ + 1]
            IN IF fn = "throws" THEN Caught(called, fn)
               ELSE [called EXCEPT !.state = "awaiting", !.pending = fn]

\* chain.use(interceptor), for an interceptor that is a function
Use(fn) ==
    /\ CanModify
    /\ Len(interceptors) < MaxChain
    /\ interceptors' = Append(interceptors, fn)
    /\ execution' = Disturbed(execution)

\* chain.remove(interceptor): indexOf and splice
Remove(fn) ==
    LET hits == {i \in 1..Len(interceptors) : interceptors[i] = fn}
        index == CHOOSE i \in hits : \A j \in hits : i <= j
    IN /\ CanModify
       /\ hits /= {}
       /\ interceptors' = SubSeq(interceptors, 1, index - 1)
                             \o SubSeq(interceptors, index + 1, Len(interceptors))
       /\ execution' = Disturbed(execution)

\* chain.clear(): this.interceptors is a new array, and a loop in flight
\* keeps the one it started on
ClearChain ==
    /\ CanModify
    /\ interceptors /= <<>>
    /\ interceptors' = <<>>
    /\ execution' = IF execution.state = "awaiting"
                    THEN [Disturbed(execution) EXCEPT
                             !.array = IteratedArray(execution, interceptors),
                             !.detached = TRUE]
                    ELSE execution

\* chain.execute(request, initialContext), up to its first await or its
\* return
Execute_Start(initialContext) ==
    /\ execution.state = "none"
    /\ execution' = Loop([NoExecution EXCEPT !.index = 1,
                                             !.initial = initialContext,
                                             !.context = initialContext,
                                             !.registered = interceptors],
                         interceptors)
    /\ interceptors' = interceptors

\* the awaited interceptor settles and execute resumes: a rejection is
\* caught, a result that is not undefined is merged, and the loop goes on
Execute_Resume ==
    /\ execution.state = "awaiting"
    /\ LET fn == execution.pending
           result == InterceptorResult(fn)
           merged == IF result.t /= "undefined"
                     THEN [execution EXCEPT !.context = Spread(@, result)]
                     ELSE execution
       IN execution' = IF fn = "rejects" THEN Caught(execution, fn)
                       ELSE Loop(merged, interceptors)
    /\ interceptors' = interceptors

ChainInit == interceptors = <<>> /\ execution = NoExecution


(***************************************************************************)
(* Schema.parseArgs: the arguments of a generator call, split and parsed.  *)
(***************************************************************************)
MaxArgsLen == 4
MaxArgs == 3

\* the characters argument texts are drawn from
ArgChars == {",", "'", "\"", "\\", "[", "]", " ", "1"}
QuoteChars == {"\"", "'"}
OpenChars == {"[", "{"}
CloseChars == {"]", "}"}

\* String.prototype.trim, whitespace being the space of ArgChars
RECURSIVE TrimStart(_)
TrimStart(s) ==
    IF s # <<>> /\ Head(s) = " " THEN TrimStart(Tail(s)) ELSE s

Trim(s) == TrimStart(TrimEnd(s))

S_true == <<"t","r","u","e">>
S_false == <<"f","a","l","s","e">>
S_null == <<"n","u","l","l">>
S_undefined == <<"u","n","d","e","f","i","n","e","d">>

\* the value of a decimal digit
DigitValue(c) == CHOOSE n \in 0..9 : ToString(n) = c

\* Number(value): the decimal value of a text of digits, NaN for the other
\* texts over ArgChars and letters
RECURSIVE DecimalValue(_)
DecimalValue(s) ==
    IF s = <<>> THEN 0
    ELSE 10 * DecimalValue(SubSeq(s, 1, Len(s) - 1)) + DigitValue(s[Len(s)])

ToNumber(value) ==
    IF value # <<>> /\ \A i \in 1..Len(value) : value[i] \in Digits
    THEN Num(DecimalValue(value))
    ELSE NaN

\* what JSON.parse returns for the text, or the text itself when it throws
JsonOrText(value) == [t |-> "jsonOrText", v |-> value]

\* String.prototype.slice(1, -1)
SliceInner(s) == IF Len(s) >= 2 THEN SubSeq(s, 2, Len(s) - 1) ELSE <<>>

ParseArgValue(value) ==
    IF value = S_true THEN Bool(TRUE)
    ELSE IF value = S_false THEN Bool(FALSE)
    ELSE IF value = S_null THEN Null
    ELSE IF value = S_undefined THEN Undefined
    ELSE IF value # <<>> /\ \E q \in QuoteChars :
                               Head(value) = q /\ value[Len(value)] = q
    THEN Str(SliceInner(value))
    ELSE IF ToNumber(value) # NaN /\ value # <<>> THEN ToNumber(value)
    ELSE JsonOrText(value)

\* the locals of parseArgs before its loop
ArgsStart ==
    [args |-> <<>>, current |-> <<>>, inString |-> FALSE, stringChar |-> "",
     depth |-> 0]

\* comma handling that ignores the bracket depth
AtComma_AnyDepth(st) == ~st.inString

\* the test of the branch that ends an argument, the character being ','
AtComma(st) == ~st.inString /\ st.depth = 0

\* one iteration of the loop of parseArgs, at the 1-based index i
ArgsStep(st, argsString, i) ==
    LET char == argsString[i] IN
    IF ~st.inString /\ char \in QuoteChars
    THEN [st EXCEPT !.inString = TRUE, !.stringChar = char,
                    !.current = @ \o <<char>>]
    ELSE IF st.inString /\ char = st.stringChar
            /\ (i = 1 \/ argsString[i - 1] # "\\")
    THEN [st EXCEPT !.inString = FALSE, !.stringChar = "",
                    !.current = @ \o <<char>>]
    ELSE IF ~st.inString /\ char \in OpenChars
    THEN [st EXCEPT !.depth = @ + 1, !.current = @ \o <<char>>]
    ELSE IF ~st.inString /\ char \in CloseChars
    THEN [st EXCEPT !.depth = @ - 1, !.current = @ \o <<char>>]
    ELSE IF char = "," /\ AtComma(st)
    THEN [st EXCEPT !.args = Append(@, ParseArgValue(Trim(st.current))),
                    !.current = <<>>]
    ELSE [st EXCEPT !.current = @ \o <<char>>]

RECURSIVE ArgsLoop(_, _, _)
ArgsLoop(st, argsString, i) ==
    IF i > Len(argsString) THEN st
    ELSE ArgsLoop(ArgsStep(st, argsString, i), argsString, i + 1)

ParseArgs(argsString) ==
    IF argsString = <<>> \/ Trim(argsString) = <<>> THEN <<>>
    ELSE LET st == ArgsLoop(ArgsStart, argsString, 1) IN
         IF Trim(st.current) # <<>>
         THEN Append(st.args, ParseArgValue(Trim(st.current)))
         ELSE st.args

\* no parseArgs call made yet
NoParse == [called |-> FALSE, text |-> <<>>, parts |-> <<>>, args |-> <<>>]

\* parseArgs(text); parts are the argument texts the text was written from,
\* when it was written as a list of arguments
ParseCall(text, parts) ==
    /\ parsed' = [called |-> TRUE, text |-> text, parts |-> parts,
                  args |-> ParseArgs(text)]
    /\ UNCHANGED presets

ArgsInit == parsed = NoParse

(***************************************************************************)
(* ScenarioPresets.rateLimited: a condition that counts its evaluations.   *)
(***************************************************************************)
MaxPresets == 2
MaxEvaluations == 4
DefaultLimit == 100

\* the limits rateLimited is called with; Undefined is the omitted argument
PresetLimits == {Undefined, Num(0), Num(1), Num(2)}

\* a count that trips on reaching the limit
Exceeds_AtLimit(requestCount, limit) == requestCount >= limit

\* requestCount > limit
Exceeds(requestCount, limit) == requestCount > limit

\* rateLimited(limit): a preset with its own requestCount; results are what
\* its condition has returned so far, in call order
RateLimited(limit) ==
    /\ Len(presets) < MaxPresets
    /\ presets' = Append(presets,
           [limit |-> IF limit = Undefined THEN DefaultLimit ELSE limit.v,
            requestCount |-> 0, results |-> <<>>])
    /\ UNCHANGED parsed

\* preset.condition(request) of the i-th preset created
PresetCondition(i) ==
    /\ i \in 1..Len(presets)
    /\ Len(presets[i].results) < MaxEvaluations
    /\ LET requestCount == presets[i].requestCount + 1 IN
       presets' = [presets EXCEPT
           ![i].requestCount = requestCount,
           ![i].results = Append(@, Exceeds(requestCount, presets[i].limit))]
    /\ UNCHANGED parsed

PresetInit == presets = <<>>

(***************************************************************************)
(* Bounds, initial state and the specification of the Router.              *)
(***************************************************************************)
MaxRoutes == 2
MaxEndpoints == 2

RouterInit ==
    /\ routes = <<>>
    /\ routerThrew = FALSE

MockerInit ==
    /\ endpoints = <<>>
    /\ lastGen = [called |-> FALSE, method |-> <<>>, path |-> <<>>,
                  resp |-> [status |-> 0, body |-> Null, notDefined |-> FALSE,
                            headers |-> Obj(<<>>), parsed |-> FALSE]]

Init ==
    /\ RouterInit
    /\ MockerInit
    /\ DelayInit
    /\ ScenarioInit
    /\ HandlerInit
    /\ ErrorInit
    /\ SchemaInit
    /\ LoggerInit
    /\ SequenceInit
    /\ StoreInit
    /\ ChainInit
    /\ ArgsInit
    /\ PresetInit

\* a register call the bound on the number of routes admits
CanRegister(method, path) ==
    \/ Len(routes) < MaxRoutes
    \/ IndexOfKey(routes, CreateKey(method, path)) /= 0
    \/ ~PathToRegex(path).ok

RouterConfigs == {CfgUser, CfgStatic}

Next ==
    \/ \E m \in MethodInputs, t \in Templates, c \in RouterConfigs :
          /\ CanRegister(m, t)
          /\ Register(m, t, c)
          /\ UNCHANGED <<mockerVars, delayVars, scenarioVars, handlerVars, errorVars, schemaVars, loggerVars, auxVars>>
    \/ \E m \in MethodInputs, t \in Templates :
          /\ Unregister(m, t)
          /\ UNCHANGED <<mockerVars, delayVars, scenarioVars, handlerVars, errorVars, schemaVars, loggerVars, auxVars>>
    \/ /\ Clear
       /\ UNCHANGED <<mockerVars, delayVars, scenarioVars, handlerVars, errorVars, schemaVars, loggerVars, auxVars>>

Spec == Init /\ [][Next]_vars

(***************************************************************************)
(* The documented meaning of a path template: each ':name' stands for one  *)
(* or more characters other than '/', every other character for itself.    *)
(***************************************************************************)
RECURSIVE TemplateTokens(_)
TemplateTokens(t) ==
    IF t = <<>> THEN <<>>
    ELSE IF Len(t) >= 2 /\ t[1] = ":" /\ IsIdentStart(t[2])
         THEN <<[k |-> "cap", c |-> ""]>>
              \o TemplateTokens(SubSeq(t, 2 + IdentRun(t, 2), Len(t)))
         ELSE <<[k |-> "lit", c |-> Head(t)]>> \o TemplateTokens(Tail(t))

TemplateAccepts(t, path) == RegexMatch(TemplateTokens(t), path).ok

\* the path a template gives with val[name] in the place of each ':name'
RECURSIVE Substitute(_, _)
Substitute(t, val) ==
    IF t = <<>> THEN <<>>
    ELSE IF Len(t) >= 2 /\ t[1] = ":" /\ IsIdentStart(t[2])
         THEN LET n == IdentRun(t, 2)
              IN val[SubSeq(t, 2, 1 + n)] \o Substitute(SubSeq(t, 2 + n, Len(t)), val)
         ELSE <<Head(t)>> \o Substitute(Tail(t), val)

ParamNameSet(t) == {ExtractParamNames(t)[i] : i \in 1..Len(ExtractParamNames(t))}

\* non-empty values without '/'
ValueInputs == {<<"4","2">>, <<"m","e">>}

(***************************************************************************)
(* C1 (as claimed): for every registered route and every assignment of     *)
(* non-empty '/'-free values to the ':name' segments of its template,      *)
(* match on the substituted path returns a route whose params bind each    *)
(* name to the value substituted for it.                                   *)
(***************************************************************************)
C1_RoundTrip ==
    \A i \in 1..Len(routes) :
        \A val \in [ParamNameSet(routes[i].path) -> ValueInputs] :
            LET r == Match(routes, routes[i].method, Substitute(routes[i].path, val))
            IN /\ r.found
               /\ \A name \in ParamNameSet(routes[i].path) :
                     /\ name \in DOMAIN r.params
                     /\ r.params[name] = Str(val[name])

(***************************************************************************)
(* C2 (as claimed): whenever two registered routes with the same method    *)
(* both accept a concrete path, match returns the one registered earlier.  *)
(***************************************************************************)
C2_FirstRegistrationWins ==
    \A m \in MethodInputs, p \in PathInputs :
        \A i, j \in 1..Len(routes) :
            ( /\ i < j
              /\ routes[i].method = ToUpperCase(m)
              /\ routes[j].method = ToUpperCase(m)
              /\ TemplateAccepts(routes[i].path, p)
              /\ TemplateAccepts(routes[j].path, p) )
            => /\ Match(routes, m, p).found
               /\ Match(routes, m, p).key /= routes[j].key

(***************************************************************************)
(* The specification of the ApiResponseMocker beside a Router.             *)
(***************************************************************************)
MockerPaths == {TplUserMe, P_u42, TplDotted}

\* a define call the bound on the number of endpoints admits
CanDefine(method, path) ==
    \/ Len(endpoints) < MaxEndpoints
    \/ IndexOfKey(endpoints, CreateKey(method, path)) /= 0

MockerNext ==
    \/ \E m \in {M_GET, M_get}, p \in MockerPaths, o \in OptionInputs :
          /\ CanDefine(m, p)
          /\ Define(m, p, o)
          /\ UNCHANGED <<lastGen, routerVars, delayVars, scenarioVars, handlerVars, errorVars, schemaVars, loggerVars, auxVars>>
    \/ \E m \in MethodInputs, p \in MockerPaths \cup {P_none} :
          /\ Generate(m, p)
          /\ UNCHANGED <<routerVars, delayVars, scenarioVars, handlerVars, errorVars, schemaVars, loggerVars, auxVars>>
    \/ \E t \in {TplUserId, TplUserMe} :
          /\ CanRegister(M_GET, t)
          /\ Register(M_GET, t, CfgStatic)
          /\ UNCHANGED <<mockerVars, delayVars, scenarioVars, handlerVars, errorVars, schemaVars, loggerVars, auxVars>>
    \/ /\ Clear
       /\ UNCHANGED <<mockerVars, delayVars, scenarioVars, handlerVars, errorVars, schemaVars, loggerVars, auxVars>>

MockerSpec == Init /\ [][MockerNext]_vars

\* no registered route has the method and a pattern matching the path
NoRouteAccepts(m, p) ==
    \A i \in 1..Len(routes) :
        \/ routes[i].method /= ToUpperCase(m)
        \/ ~RegexMatch(routes[i].pattern, p).ok

(***************************************************************************)
(* C6: a request that matches no registered endpoint gets a defined        *)
(* not-found result: Router.match returns null, and a generate call whose  *)
(* key is not defined returns the status-404 response, does not interpret  *)
(* any schema and leaves the endpoints as they were.                       *)
(***************************************************************************)
C6_RoutingMiss ==
    /\ routes = <<>> =>
          \A m \in MethodInputs, p \in PathInputs : Match(routes, m, p) = NoRoute
    /\ [][ /\ routes' /= routes =>
                \A m \in MethodInputs, p \in PathInputs :
                    NoRouteAccepts(m, p)' => (Match(routes, m, p) = NoRoute)'
           /\ ( /\ lastGen' /= lastGen
                /\ IndexOfKey(endpoints,
                              CreateKey(lastGen'.method, lastGen'.path)) = 0 )
              => /\ lastGen'.resp.status = 404
                 /\ lastGen'.resp.notDefined
                 /\ ~lastGen'.resp.parsed
                 /\ lastGen'.resp.body = Null
                 /\ endpoints' = endpoints ]_vars

\* a generate call has missed while endpoints and routes were registered,
\* and the router has no match for the request either
C6_Witness ==
    /\ lastGen.called
    /\ lastGen.resp.status = 404
    /\ IndexOfKey(endpoints, CreateKey(lastGen.method, lastGen.path)) = 0
    /\ endpoints /= <<>>
    /\ routes /= <<>>
    /\ Match(routes, lastGen.method, lastGen.path) = NoRoute

(***************************************************************************)
(* The specifications of the DelayController: DelayFairSpec adds that the  *)
(* runtime runs the callback of every timer that stays set.                *)
(***************************************************************************)
DelaySpec == Init /\ [][DelayNext]_vars

DelayFairSpec ==
    /\ Init
    /\ [][DelayNext]_vars
    /\ \A p \in PromiseIds : WF_vars(TimerFire(p) /\ UNCHANGED <<routerVars, mockerVars, scenarioVars, handlerVars, errorVars, schemaVars, loggerVars, auxVars>>)

(***************************************************************************)
(* C7 (as claimed): every delay that is pending when abort() is called is  *)
(* eventually rejected, and never resolves normally.                       *)
(***************************************************************************)
C7_AbortRejectsPending ==
    \A p \in PromiseIds :
        /\ [](promises[p].atAbort => promises[p].state /= "resolved")
        /\ (promises[p].atAbort ~> promises[p].state = "rejected")

(***************************************************************************)
(* C8 (as claimed): every execute(fn) and wait(ms) call made while the     *)
(* controller is aborted, whatever the delay, is rejected with the         *)
(* 'aborted' error, and fn is not invoked.                                 *)
(***************************************************************************)
C8_AbortedRefusesWork ==
    \A p \in PromiseIds :
        promises[p].bornAborted =>
            /\ promises[p].state = "rejected"
            /\ promises[p].err = "aborted"
            /\ ~promises[p].fnCalled

\* the arguments setDelay must refuse: a non-number, or a negative number
InvalidDelay(ms) == IF ms.t = "num" THEN ms.v < 0 ELSE TRUE

\* the arguments setDelayRange must refuse: a non-number, a negative bound,
\* or min > max
InvalidRange(min, max) ==
    IF min.t = "num" /\ max.t = "num"
    THEN min.v < 0 \/ max.v < 0 \/ min.v > max.v
    ELSE TRUE

(***************************************************************************)
(* C10: a setDelay or setDelayRange call with an invalid argument throws   *)
(* and leaves defaultDelay and delayRange as they were, so getDelay()      *)
(* returns afterwards what it returned before the call.                    *)
(***************************************************************************)
C10_InvalidDelayFailsFast ==
    [][ /\ \A ms \in DelayArgs :
              (InvalidDelay(ms) /\ SetDelay(ms)) =>
                  /\ delayLast'.threw
                  /\ defaultDelay' = defaultDelay
                  /\ delayRange' = delayRange
        /\ \A min \in DelayArgs, max \in DelayArgs :
              (InvalidRange(min, max) /\ SetDelayRange(min, max)) =>
                  /\ delayLast'.threw
                  /\ defaultDelay' = defaultDelay
                  /\ delayRange' = delayRange
                  /\ GetDelayValues(defaultDelay', delayRange')
                        = GetDelayValues(defaultDelay, delayRange) ]_vars

\* a setDelayRange call has thrown on a controller that holds a range set
\* by an earlier call
C10_Witness ==
    /\ delayLast = [op |-> "setDelayRange", threw |-> TRUE]
    /\ delayRange = Range(0, 2)

(***************************************************************************)
(* The request pipeline: routes are registered, scenarios defined and      *)
(* activated, and requests handled, through router.match and               *)
(* ResponseHandler.handle or through the handle of createMockServer.       *)
(***************************************************************************)
S_down == <<"d","o","w","n">>

TplErr == <<"/","e">>
TplFast == <<"/","f">>

\* {ok: 'ok'} after a delay of 5 ms
CfgSlow == Config(Undefined, StaticBody, Undefined, Num(5), Undefined)

\* an error simulation on an endpoint that also has a delay and a schema
ErrorConfig == Obj(<<[k |-> S_status, v |-> Num(503)],
                     [k |-> S_message, v |-> Str(S_down)]>>)
CfgErr == Config(UserSchema, Undefined, Undefined, Num(5), ErrorConfig)

\* FastSchema with a delay of 0
CfgFast == Config(FastSchema, Undefined, Undefined, Num(0), Undefined)

\* the register calls of the set-up, in their order
HandlerRoutes ==
    << [method |-> M_GET, path |-> TplUserId, config |-> CfgUser],
       [method |-> M_GET, path |-> TplUserMe, config |-> CfgSlow],
       [method |-> M_GET, path |-> TplErr, config |-> CfgErr],
       [method |-> M_GET, path |-> TplFast, config |-> CfgFast] >>

RequestPaths == {P_u42, TplUserId, TplUserMe, TplErr, TplFast}

S_maint == <<"m","a","i","n","t">>
MaintConfig == [condition |-> "none", response |-> StaticBody,
                statusCode |-> Num(503), headers |-> Undefined]

HandlerNext ==
    \/ /\ Len(routes) < Len(HandlerRoutes)
       /\ LET reg == HandlerRoutes[Len(routes) + 1]
          IN Register(reg.method, reg.path, reg.config)
       /\ UNCHANGED <<mockerVars, delayVars, scenarioVars, handlerVars, errorVars, schemaVars, loggerVars, auxVars>>
    \/ /\ IndexOfKey(scenarios, S_maint) = 0
       /\ ScenarioDefine(Str(S_maint), MaintConfig)
       /\ UNCHANGED <<routerVars, mockerVars, delayVars, handlerVars, errorVars, schemaVars, loggerVars, auxVars>>
    \/ /\ IndexOfKey(activeScenarios, S_star) = 0
       /\ IndexOfKey(scenarios, S_maint) /= 0
       /\ ScenarioActivate(S_maint, S_star)
       /\ UNCHANGED <<routerVars, mockerVars, delayVars, handlerVars, errorVars, schemaVars, loggerVars, auxVars>>
    \/ \E p \in RequestPaths :
          /\ HandleRoute(M_GET, p)
          /\ UNCHANGED <<mockerVars, delayVars, scenarioVars, errorVars, schemaVars, loggerVars, auxVars>>
    \/ \E r \in ReqIds :
          /\ HandlerTimerFire(r)
          /\ UNCHANGED <<mockerVars, delayVars, scenarioVars, errorVars, schemaVars, loggerVars, auxVars>>
    \/ \E p \in RequestPaths :
          /\ ServerHandle(M_GET, p)
          /\ UNCHANGED <<mockerVars, delayVars, scenarioVars, errorVars, schemaVars, auxVars>>

HandlerSpec == Init /\ [][HandlerNext]_vars

\* the route of the key is registered with the config
Registered(method, path, config) ==
    \E i \in 1..Len(routes) :
        /\ routes[i].key = CreateKey(method, path)
        /\ routes[i].config = config

\* the string contains the text
Contains(s, text) ==
    \E i \in 1..(Len(s) - Len(text) + 1) : SubSeq(s, i, i + Len(text) - 1) = text

(***************************************************************************)
(* C3 (as claimed): with GET /u/:id registered with the schema             *)
(* {id: "params.id", name: "{{fullName}}"}, handling GET /u/<v> for a      *)
(* non-empty '/'-free value v returns status 200 with body.id equal to v   *)
(* and body.name a non-empty generated string, with no placeholder text    *)
(* left in the body.                                                       *)
(***************************************************************************)
C3_EndToEnd ==
    [][ \A v \in ValueInputs \cup {<<":","i","d">>} :
          ( /\ Registered(M_GET, TplUserId, CfgUser)
            /\ NextRequest /= 0
            /\ requests'[NextRequest].pc /= "idle"
            /\ requests'[NextRequest].method = M_GET
            /\ requests'[NextRequest].path = <<"/","u","/">> \o v )
          => LET resp == requests'[NextRequest].resp
             IN /\ requests'[NextRequest].pc = "done"
                /\ resp.status = 200
                /\ resp.body.t = "obj"
                /\ ObjGet(resp.body, S_id) = Str(v)
                /\ ObjGet(resp.body, S_name).t = "str"
                /\ ObjGet(resp.body, S_name).v /= <<>>
                /\ ~Contains(ObjGet(resp.body, S_name).v, <<"{","{">>)
                /\ ~Contains(ObjGet(resp.body, S_id).v, S_params_dot) ]_vars

(***************************************************************************)
(* C4 (as claimed): when an active scenario's condition matches the        *)
(* request, the response carries the scenario's status and body, and the   *)
(* request reaches DONE without going through the error check or the       *)
(* delay.                                                                  *)
(***************************************************************************)
C4_ScenarioStage ==
    [][ \A p \in RequestPaths :
          LET scenario == Evaluate(scenarios, activeScenarios, p)
          IN ( /\ scenario /= NoScenario
               /\ Match(routes, M_GET, p).found
               /\ NextRequest /= 0
               /\ requests'[NextRequest].pc /= "idle"
               /\ requests'[NextRequest].path = p )
             => /\ requests'[NextRequest].pc = "done"
                /\ requests'[NextRequest].resp.status = scenario.statusCode.v
                /\ requests'[NextRequest].resp.body = scenario.response
                /\ requests'[NextRequest].ran \cap {"errorCheck", "delay"} = {} ]_vars

\* the response a simulated error of {status, message} stands for
SimulatedError(e) ==
    [status |-> ObjGet(e, S_status).v,
     headers |-> Obj(<<>>),
     body |-> Obj(<<[k |-> S_error, v |-> ObjGet(e, S_message)]>>)]

(***************************************************************************)
(* C5: whenever the error simulation triggers for a request given to       *)
(* ResponseHandler.handle, the response returned is the simulated error    *)
(* response, and neither the delay nor the body generation is executed     *)
(* for that request.                                                       *)
(***************************************************************************)
C5_ErrorShortCircuit ==
    \A r \in ReqIds :
        ( /\ requests[r].via = "route"
          /\ requests[r].pc /= "notfound"
          /\ Truthy(requests[r].config.error) )
        => /\ requests[r].pc = "done"
           /\ requests[r].resp = SimulatedError(requests[r].config.error)
           /\ requests[r].ran \cap {"delay", "generateBody"} = {}

\* a request to the endpoint with an error, a delay and a schema has
\* returned
C5_Witness ==
    \E r \in ReqIds :
        /\ requests[r].via = "route"
        /\ requests[r].config = CfgErr
        /\ requests[r].pc = "done"
        /\ requests[r].resp.status = 503
        /\ "handleError" \in requests[r].ran

\* the config the set-up registers under the key
SetUpConfig(key) ==
    LET i == CHOOSE j \in 1..Len(HandlerRoutes) :
                CreateKey(HandlerRoutes[j].method, HandlerRoutes[j].path) = key
    IN HandlerRoutes[i].config

\* the response is one the endpoint of the request's own route generates
OwnResponse(r) ==
    \E rnd \in RandomDraws :
        \E c \in {SetUpConfig(requests[r].key),
                  ConfigAfter(SetUpConfig(requests[r].key))} :
            requests[r].resp = Generated(c, requests[r].params, rnd)

(***************************************************************************)
(* C9: while one handle call is suspended in a non-zero delay, a call made *)
(* later for an endpoint with zero delay can reach DONE with the first     *)
(* still delaying, and each request returns the response of its own        *)
(* endpoint.                                                               *)
(***************************************************************************)
C9_DelayDoesNotBlock ==
    /\ \A r \in ReqIds :
          ( /\ requests[r].pc = "delaying"
            /\ NextRequest /= 0
            /\ Registered(M_GET, TplFast, CfgFast) )
          => ENABLED ( /\ HandleRoute(M_GET, TplFast)
                       /\ UNCHANGED <<mockerVars, delayVars, scenarioVars, errorVars, schemaVars, loggerVars, auxVars>>
                       /\ requests'[NextRequest].pc = "done"
                       /\ requests'[r].pc = "delaying" )
    /\ \A r \in ReqIds :
          ( /\ requests[r].pc = "done"
            /\ ~Truthy(requests[r].config.error) )
          => OwnResponse(r)

\* the first call is still delaying and the second, made later, is done
C9_Witness ==
    \E r1, r2 \in ReqIds :
        /\ r1 < r2
        /\ requests[r1].pc = "delaying"
        /\ requests[r2].pc = "done"
        /\ EffectiveDelay(requests[r2].config) = 0
        /\ requests[r2].resp.status = 200
        /\ OwnResponse(r2)


(***************************************************************************)
(* The ScenarioManager on its own: scenarios are defined, activated and    *)
(* deactivated per scope, and reset.                                       *)
(***************************************************************************)
S_a == <<"a">>
S_b == <<"b">>
ScenarioNames == {S_a, S_b}

\* the names define is called with: two names, the empty string and null
DefineNames == {Str(S_a), Str(S_b), Str(<<>>), Null}

P_x == <<"/","x">>
P_y == <<"/","y">>
Scopes == {S_star, P_x, P_y}

\* a config whose condition always returns true, always returns false, or
\* throws
ConditionConfig(condition) ==
    [condition |-> condition, response |-> Undefined,
     statusCode |-> Undefined, headers |-> Undefined]
ScenarioConfigs == {ConditionConfig(c) : c \in {"always", "never", "throws"}}

\* the define calls: the first name with every condition, the others with
\* a condition that returns true
DefineCalls ==
    {call \in [name : DefineNames, config : ScenarioConfigs] :
        call.name = Str(S_a) \/ call.config.condition = "always"}

ScenarioNext ==
    \/ \E call \in DefineCalls :
          /\ ScenarioDefine(call.name, call.config)
          /\ UNCHANGED <<routerVars, mockerVars, delayVars, handlerVars, errorVars, schemaVars, loggerVars, auxVars>>
    \/ \E name \in ScenarioNames, endpoint \in Scopes :
          /\ ScenarioActivate(name, endpoint)
          /\ UNCHANGED <<routerVars, mockerVars, delayVars, handlerVars, errorVars, schemaVars, loggerVars, auxVars>>
    \/ \E name \in ScenarioNames, endpoint \in Scopes :
          /\ ScenarioDeactivate(name, endpoint)
          /\ UNCHANGED <<routerVars, mockerVars, delayVars, handlerVars, errorVars, schemaVars, loggerVars, auxVars>>
    \/ /\ ScenarioReset
       /\ UNCHANGED <<routerVars, mockerVars, delayVars, handlerVars, errorVars, schemaVars, loggerVars, auxVars>>

ScenarioSpec == Init /\ [][ScenarioNext]_vars

(***************************************************************************)
(* The error simulators on their own: each step is one call.               *)
(***************************************************************************)
ErrorNext ==
    \/ /\ CallSimulateRandomError
       /\ UNCHANGED <<routerVars, mockerVars, delayVars, scenarioVars, handlerVars, schemaVars, loggerVars, auxVars>>
    \/ /\ CallSimulateError
       /\ UNCHANGED <<routerVars, mockerVars, delayVars, scenarioVars, handlerVars, schemaVars, loggerVars, auxVars>>
    \/ /\ CallErrorSimulator
       /\ UNCHANGED <<routerVars, mockerVars, delayVars, scenarioVars, handlerVars, schemaVars, loggerVars, auxVars>>
    \/ /\ CallShouldError
       /\ UNCHANGED <<routerVars, mockerVars, delayVars, scenarioVars, handlerVars, schemaVars, loggerVars, auxVars>>

ErrorSpec == Init /\ [][ErrorNext]_vars


\* the call simulated an error: it returned one, threw one, or answered true
SimTriggered == simLast.out.kind \in {"returned", "thrown", "true"}

(***************************************************************************)
(* C11 (as claimed): for every value of the random draw in [0, 1), a       *)
(* simulator with a configured error and probability 1.0 always simulates  *)
(* an error, and one with probability 0.0 never does.                      *)
(***************************************************************************)
C11_ProbabilityExtremes ==
    (simLast.fn /= "none" /\ simLast.configured)
    => /\ simLast.probability = DrawUnits => SimTriggered
       /\ simLast.probability = 0 => ~SimTriggered

(***************************************************************************)
(* C12 (as claimed): a triggered simulated error is delivered to the       *)
(* caller as a value carrying one of the configured candidate statuses and *)
(* is never thrown, and an unknown error preset does not throw at request  *)
(* time either.                                                            *)
(***************************************************************************)
C12_ErrorIsAValue ==
    simLast.fn \in {"simulateRandomError", "simulateError", "createErrorSimulator"}
    => /\ simLast.out.kind /= "thrown"
       /\ simLast.out.kind = "returned" => simLast.out.status \in simLast.candidates


\* the names activated in a scope and not deactivated since, in the order
\* of their activation
ActiveNames(scope) ==
    LET i == IndexOfKey(activeScenarios, scope)
    IN IF i = 0 THEN <<>> ELSE activeScenarios[i].names

\* the name is in the list
InSeq(n, names) == \E i \in 1..Len(names) : names[i] = n

\* the order of consideration for an endpoint: the global names, then the
\* endpoint's names that are not global
ConsiderationOrder(endpoint) ==
    ActiveNames(S_star)
        \o SelectSeq(ActiveNames(endpoint),
                     LAMBDA n : ~InSeq(n, ActiveNames(S_star)))

\* the condition the name is defined with
ConditionOf(name) == scenarios[IndexOfKey(scenarios, name)].condition

\* the positions of the order whose condition returns true
Matching(order) == {i \in 1..Len(order) : ConditionOf(order[i]) = "always"}

\* the name evaluate is to return for the order, <<>> standing for null
FirstMatching(order) ==
    IF Matching(order) = {} THEN <<>>
    ELSE order[CHOOSE i \in Matching(order) : \A j \in Matching(order) : i <= j]

(***************************************************************************)
(* C13: evaluate(endpoint, request) considers the globally active          *)
(* scenarios in activation order, then the ones active for the endpoint in *)
(* activation order, each name once, and returns the first whose condition *)
(* is truthy, or null when none is.                                        *)
(***************************************************************************)
C13_EvaluationOrder ==
    \A endpoint \in Scopes :
        /\ LET active == GetActiveScenarios(scenarios, activeScenarios, endpoint)
           IN [i \in 1..Len(active) |-> active[i].key] = ConsiderationOrder(endpoint)
        /\ Evaluate(scenarios, activeScenarios, endpoint).key
              = FirstMatching(ConsiderationOrder(endpoint))

\* a global scenario that never matches is active together with an
\* endpoint-scoped one that always matches, which evaluate returns
C13_Witness ==
    /\ ActiveNames(S_star) = <<S_a>>
    /\ ConditionOf(S_a) = "never"
    /\ ActiveNames(P_x) = <<S_b>>
    /\ ConditionOf(S_b) = "always"
    /\ Evaluate(scenarios, activeScenarios, P_x).key = S_b
    /\ Evaluate(scenarios, activeScenarios, P_y) = NoScenario

(***************************************************************************)
(* C14: a condition that throws counts as not matching: evaluate does not  *)
(* throw, goes on with the next active scenario, and returns a later       *)
(* matching scenario if there is one and null otherwise.                   *)
(***************************************************************************)
C14_ThrowingConditionSkipped ==
    \A endpoint \in Scopes :
        LET order == ConsiderationOrder(endpoint)
            out == EvaluateOutcome(scenarios, activeScenarios, endpoint)
        IN (\E i \in 1..Len(order) : ConditionOf(order[i]) = "throws")
           => /\ ~out.threw
              /\ out.scenario.key = FirstMatching(order)

\* a scenario whose condition throws is considered before one that
\* matches, and evaluate returns the latter
C14_Witness ==
    /\ ConsiderationOrder(P_x) = <<S_a, S_b>>
    /\ ConditionOf(S_a) = "throws"
    /\ ConditionOf(S_b) = "always"
    /\ ~EvaluateOutcome(scenarios, activeScenarios, P_x).threw
    /\ Evaluate(scenarios, activeScenarios, P_x).key = S_b

(***************************************************************************)
(* C15: reset() clears the activation of every scope, so that              *)
(* getActiveScenarios returns the empty list for every endpoint, and       *)
(* leaves the scenario definitions as they were, so that every scenario    *)
(* can be activated again.                                                 *)
(***************************************************************************)
C15_ResetKeepsDefinitions ==
    [][ ScenarioReset
        => /\ \A endpoint \in Scopes :
                 GetActiveScenarios(scenarios', activeScenarios', endpoint) = <<>>
           /\ scenarios' = scenarios
           /\ \A name \in ScenarioNames :
                 IndexOfKey(scenarios, name) /= 0
                 => IndexOfKey(scenarios', name) /= 0 ]_vars

\* reset has run on a manager with both scenarios defined
C15_Witness ==
    /\ scenarioLast.op = "reset"
    /\ Len(scenarios) = 2
    /\ \A endpoint \in Scopes :
          GetActiveScenarios(scenarios, activeScenarios, endpoint) = <<>>

\* the scenario is active for the endpoint
ActiveFor(scs, act, name, endpoint) ==
    LET active == GetActiveScenarios(scs, act, endpoint)
    IN \E i \in 1..Len(active) : active[i].key = name

(***************************************************************************)
(* C16: activate(name, E) makes the scenario active for the endpoint E     *)
(* only, and deactivate(name, scope) removes the activation of that scope  *)
(* only: a scenario active globally and for E stays active for E after a   *)
(* global deactivate and stays globally active after deactivate(name, E).  *)
(***************************************************************************)
C16_ActivationPerScope ==
    [][ \A name \in ScenarioNames, scope \in Scopes :
          /\ ( /\ scenarioLast'.op = "activate"
               /\ ~scenarioLast'.threw
               /\ ScenarioActivate(name, scope) )
             => /\ InSeq(name, ActiveNames(scope)')
                /\ \A other \in Scopes \ {scope} :
                      ActiveNames(other)' = ActiveNames(other)
                /\ scope /= S_star
                   => \A other \in Scopes \ {scope, S_star} :
                         ActiveFor(scenarios', activeScenarios', name, other)
                            = ActiveFor(scenarios, activeScenarios, name, other)
          /\ ( /\ scenarioLast'.op = "deactivate"
               /\ ScenarioDeactivate(name, scope) )
             => /\ ~InSeq(name, ActiveNames(scope)')
                /\ \A other \in Scopes \ {scope} :
                      ActiveNames(other)' = ActiveNames(other)
                /\ \A other \in Scopes \ {scope} :
                      InSeq(name, ActiveNames(other))
                      => ActiveFor(scenarios', activeScenarios', name, other) ]_vars

\* after a global deactivate the scenario, once active globally and for
\* /x, is active for /x only
C16_Witness ==
    /\ scenarioLast.op = "deactivate"
    /\ IndexOfKey(activeScenarios, S_star) /= 0
    /\ ~InSeq(S_a, ActiveNames(S_star))
    /\ ActiveFor(scenarios, activeScenarios, S_a, P_x)
    /\ ~ActiveFor(scenarios, activeScenarios, S_a, P_y)

\* define throws for the name: it is empty or not a string
InvalidName(name) == name.t /= "str" \/ name.v = <<>>

(***************************************************************************)
(* C17: define() with an empty or non-string name throws, activate() of a  *)
(* name that is not defined throws, and in both cases the definitions and  *)
(* every activation set are left as they were.                             *)
(***************************************************************************)
C17_ScenarioFailFast ==
    [][ /\ \A name \in DefineNames, config \in ScenarioConfigs :
              (InvalidName(name) /\ scenarioLast'.op = "define"
                 /\ ScenarioDefine(name, config))
              => /\ scenarioLast'.threw
                 /\ scenarios' = scenarios
                 /\ activeScenarios' = activeScenarios
        /\ \A name \in ScenarioNames, scope \in Scopes :
              (IndexOfKey(scenarios, name) = 0 /\ scenarioLast'.op = "activate"
                 /\ ScenarioActivate(name, scope))
              => /\ scenarioLast'.threw
                 /\ scenarios' = scenarios
                 /\ activeScenarios' = activeScenarios ]_vars

\* an activate call has thrown on a manager that has a scenario defined
\* and one activated
C17_Witness ==
    /\ scenarioLast = [op |-> "activate", threw |-> TRUE]
    /\ Len(scenarios) = 1
    /\ activeScenarios /= <<>>


(***************************************************************************)
(* The schema interpreters on their own: a document is taken up and        *)
(* interpreted up to MaxRuns times in succession.                          *)
(***************************************************************************)
SchemaSpec == Init /\ [][SchemaNext]_vars

\* the keys of a mapping
KeySet(obj) == {obj.v[i].k : i \in 1..Len(obj.v)}

\* the number of instances a repeat count stands for
RepeatInstances(count) == IF count.t = "num" /\ count.v > 0 THEN count.v ELSE 1

(***************************************************************************)
(* C18 (as claimed): a mapping node with the repeat-count directive and    *)
(* the template directive is interpreted as an array, of exactly one       *)
(* template instance for a count that is zero, negative or non-numeric,    *)
(* and of exactly n instances for a positive integer count n.              *)
(***************************************************************************)
C18_RepeatFloor ==
    \A count \in RepeatCounts :
        (interp.kind = "Schema" /\ interp.doc = RepeatDoc(count))
        => \A i \in 1..Len(interp.outs) :
              LET items == ObjGet(interp.outs[i], S_items)
              IN /\ items.t = "arr"
                 /\ Len(items.v) = RepeatInstances(count)
                 /\ \A j \in 1..Len(items.v) : items.v[j] = StaticBody

(***************************************************************************)
(* C19 (as claimed): for a mapping node interpreted key by key, the keys   *)
(* of the output are the keys of the input that do not begin with the      *)
(* directive prefix '_'.                                                   *)
(***************************************************************************)
C19_DirectiveKeysDropped ==
    (interp.kind /= "none" /\ interp.doc \in {MetaDoc, NestedDoc, UserSchema})
    => \A i \in 1..Len(interp.outs) :
          /\ interp.outs[i].t = "obj"
          /\ KeySet(interp.outs[i])
                = {k \in KeySet(interp.doc) : ~StartsWith(k, <<"_">>)}

\* the schema was registered without a generator placeholder in it
RECURSIVE HasPlaceholder(_)
HasPlaceholder(value) ==
    CASE value.t = "str" ->
            StartsWith(value.v, <<"$">>) \/ StartsWith(value.v, <<"{","{">>)
      [] value.t \in {"obj", "arr"} ->
            \E i \in 1..Len(value.v) :
                HasPlaceholder(IF value.t = "obj" THEN value.v[i].v ELSE value.v[i])
      [] OTHER -> FALSE

(***************************************************************************)
(* C20 (as claimed): for a schema without generator placeholders, with or  *)
(* without count and repeat directives, interpreting the registered schema *)
(* any number of times in succession yields equal output every time.       *)
(***************************************************************************)
C20_IdempotentInterpretation ==
    (interp.kind /= "none" /\ \E d \in SchemaDocs :
                                 ~HasPlaceholder(d) /\ interp.doc \in {d, SchemaAfter(d)})
    => \A i, j \in 1..Len(interp.outs) : interp.outs[i] = interp.outs[j]

\* C21: handling requests never changes a registered endpoint: whatever
\* step is taken while a request is handled (a handle call is made, or one
\* resumes after its delay), every registered route keeps the config it
\* had, schema document and directives included
C21_HandlingLeavesEndpoint ==
    [][ requests' /= requests
        => /\ Len(routes') = Len(routes)
           /\ \A i \in 1..Len(routes) : routes'[i].config = routes[i].config ]_vars

(***************************************************************************)
(* C22 (as claimed): a sequence node is interpreted element by element:    *)
(* the output is an array as long as the schema array and its i-th element *)
(* is the interpretation of the i-th element of the schema; an empty array *)
(* schema gives an empty array.                                            *)
(***************************************************************************)
C22_SequenceElementWise ==
    (interp.kind /= "none" /\ interp.doc \in {NestedDoc, EmptyDoc})
    => \A i \in 1..Len(interp.outs) :
          LET node == ObjGet(interp.doc, S_tags)
              out == ObjGet(interp.outs[i], S_tags)
          IN /\ out.t = "arr"
             /\ Len(out.v) = Len(node.v)
             \* the elements of NestedDoc are static: each is its own
             \* interpretation
             /\ \A j \in 1..Len(node.v) : out.v[j] = node.v[j]

(***************************************************************************)
(* C23 (as claimed): a placeholder that names an unknown generator, or a   *)
(* generator whose call throws, does not make the interpretation raise:    *)
(* the field is the null marker and the other fields are generated as      *)
(* usual.                                                                  *)
(***************************************************************************)
C23_GeneratorProblemsDegrade ==
    \A ref \in SchemaReferences \cup HandlerReferences :
        ( /\ interp.doc = ReferenceDoc(ref)
          /\ \/ interp.kind = "Schema" /\ ref \in SchemaReferences
             \/ interp.kind = "ResponseHandler" /\ ref \in HandlerReferences )
        => \A i \in 1..Len(interp.outs) :
              /\ interp.outs[i] /= Raised
              /\ interp.outs[i].t = "obj"
              /\ ObjGet(interp.outs[i], S_name) = Null
              /\ ObjGet(interp.outs[i], S_ok) = Str(S_ok)

(***************************************************************************)
(* The entry points with requests that go wrong: endpoints whose generator *)
(* or body function throws, and callers that write to the response they    *)
(* were returned.                                                          *)
(***************************************************************************)
TplBoom == <<"/","b">>
TplThrows == <<"/","t">>
TplShared == <<"/","h">>
TplCalls == <<"/","k">>

\* {name: '$__proto__', ok: 'ok'}: the call of the generator throws
CfgBoom == Config(ReferenceDoc(Dollar(S_proto)), Undefined, Undefined,
                  Undefined, Undefined)

\* body: () => { throw new Error() }, after a delay of 5 ms
CfgThrows == Config(Undefined, Fn("throws"), Undefined, Num(5), Undefined)

\* body: () => ({ok: 'ok'})
CfgCalls == Config(Undefined, Fn("returns"), Undefined, Undefined, Undefined)

\* a static body {ok: 'ok'} with headers {ok: 'ok'}
CfgShared ==
    [Config(Undefined, StaticBody, Undefined, Undefined, Undefined)
        EXCEPT !.headers = StaticBody]

EntryRoutes ==
    << [method |-> M_GET, path |-> TplShared, config |-> CfgShared],
       [method |-> M_GET, path |-> TplBoom, config |-> CfgBoom],
       [method |-> M_GET, path |-> TplThrows, config |-> CfgThrows],
       [method |-> M_GET, path |-> TplCalls, config |-> CfgCalls] >>

EntryPaths == {TplShared, TplBoom, TplThrows, TplCalls}

EntryNext ==
    \/ /\ Len(routes) < Len(EntryRoutes)
       /\ LET reg == EntryRoutes[Len(routes) + 1]
          IN Register(reg.method, reg.path, reg.config)
       /\ UNCHANGED <<mockerVars, delayVars, scenarioVars, handlerVars, errorVars, schemaVars, loggerVars, auxVars>>
    \/ \E p \in EntryPaths :
          /\ HandleRoute(M_GET, p)
          /\ UNCHANGED <<mockerVars, delayVars, scenarioVars, errorVars, schemaVars, loggerVars, auxVars>>
    \/ \E r \in ReqIds :
          /\ HandlerTimerFire(r)
          /\ UNCHANGED <<mockerVars, delayVars, scenarioVars, errorVars, schemaVars, loggerVars, auxVars>>
    \/ \E p \in EntryPaths :
          /\ ServerHandle(M_GET, p)
          /\ UNCHANGED <<mockerVars, delayVars, scenarioVars, errorVars, schemaVars, auxVars>>
    \/ \E r \in ReqIds, part \in {"headers", "body"} :
          /\ CallerMutates(r, part)
          /\ UNCHANGED <<mockerVars, delayVars, scenarioVars, errorVars, schemaVars, loggerVars, auxVars>>

EntrySpec == Init /\ [][EntryNext]_vars

(***************************************************************************)
(* C24 (as claimed): for a registered endpoint, a request never makes the  *)
(* entry point raise: whether its generator or body function throws or     *)
(* not, the call resolves with a {status, headers, body} response (or is   *)
(* still waiting for its delay).                                           *)
(***************************************************************************)
C24_EntryPointNeverRaises ==
    \A r \in ReqIds :
        (requests[r].via /= "none"
            /\ Match(routes, requests[r].method, requests[r].path).found
            /\ requests[r].pc /= "notfound")
        => /\ requests[r].pc \in {"delaying", "done"}
           /\ requests[r].pc = "done" => requests[r].resp.status > 0

(***************************************************************************)
(* C25 (as claimed): a response shares no mutable part with the config of  *)
(* the endpoint or with another response: when a caller sets a property on *)
(* the headers or the body of its response, no registered route and no     *)
(* other call changes.                                                     *)
(***************************************************************************)
C25_ResponsesAreFresh ==
    [][ \A r \in ReqIds :
           requests'[r].touched /= requests[r].touched
           => /\ routes' = routes
              /\ \A q \in ReqIds \ {r} : requests'[q] = requests[q] ]_vars

\* the routes the router holds under a key other than the given one, in
\* their order
OtherRoutes(rs, key) == SelectSeq(rs, LAMBDA route : route.key /= key)

(***************************************************************************)
(* C27: the router holds at most one route per pair of upper-cased method  *)
(* and path template; a register call leaves the pair with the config it   *)
(* was passed and an unregister call removes the pair, and both leave      *)
(* every other route as it was.                                            *)
(***************************************************************************)
C27_RouteUniqueness ==
    [][ /\ \A i, j \in 1..Len(routes') :
              routes'[i].key = routes'[j].key => i = j
        /\ \A i \in 1..Len(routes') :
              routes'[i].key = CreateKey(routes'[i].method, routes'[i].path)
        /\ \A m \in MethodInputs, t \in Templates :
              LET key == ToUpperCase(m) \o <<":">> \o t
                  held == {i \in 1..Len(routes') : routes'[i].key = key}
              IN /\ \A c \in RouterConfigs :
                       (held /= {} /\ PathToRegex(t).ok /\ Register(m, t, c))
                       => /\ Cardinality(held) = 1
                          /\ \A i \in held : routes'[i].config = c
                          /\ OtherRoutes(routes', key) = OtherRoutes(routes, key)
                 /\ (Len(routes') < Len(routes) /\ Unregister(m, t))
                       => /\ held = {}
                          /\ OtherRoutes(routes', key) = OtherRoutes(routes, key)
                          /\ Len(routes') = Len(routes) - 1 ]_vars

\* the router holds one path template under two methods
C27_Witness ==
    /\ Len(routes) = 2
    /\ routes[1].path = routes[2].path
    /\ routes[1].method /= routes[2].method
    /\ routes[1].config /= routes[2].config

(***************************************************************************)
(* The mock server with a logger: it is created with or without logging,   *)
(* routes are registered on its router and requests handled.               *)
(***************************************************************************)
LoggerNext ==
    \/ \E logging \in BOOLEAN, options \in LoggerOptions :
          /\ CreateMockServer(logging, options)
          /\ UNCHANGED <<routerVars, mockerVars, delayVars, scenarioVars, handlerVars, errorVars, schemaVars, auxVars>>
    \/ /\ Len(routes) < MaxRoutes
       /\ LET reg == EntryRoutes[Len(routes) + 1]
          IN Register(reg.method, reg.path, reg.config)
       /\ UNCHANGED <<mockerVars, delayVars, scenarioVars, handlerVars, errorVars, schemaVars, loggerVars, auxVars>>
    \/ \E p \in {TplShared, TplBoom} :
          /\ ServerHandle(M_GET, p)
          /\ UNCHANGED <<mockerVars, delayVars, scenarioVars, errorVars, schemaVars, auxVars>>

LoggerSpec == Init /\ [][LoggerNext]_vars

(***************************************************************************)
(* C26 (as claimed): logging cannot affect the response: whatever the      *)
(* logger, its onLog callback and its output sink do, a handle call of the *)
(* mock server completes as it does on a server without logging.           *)
(***************************************************************************)
C26_LoggingCannotAffect ==
    \A r \in ReqIds :
        requests[r].via = "server"
        => /\ requests[r].pc = ServerOutcome(NoLogger).pc
           /\ requests[r].error = ServerOutcome(NoLogger).error

(***************************************************************************)
(* The sequence generator under calls and resets of several names.         *)
(***************************************************************************)
SequenceNext ==
    \/ \E name \in CounterNames :
          /\ SequenceCall(name)
          /\ UNCHANGED <<routerVars, mockerVars, delayVars, scenarioVars, handlerVars, errorVars, schemaVars, loggerVars, storeVars, chainVars, toolVars>>
    \/ \E name \in {Str(n) : n \in CounterNames} \cup {Undefined} :
          /\ SequenceReset(name)
          /\ UNCHANGED <<routerVars, mockerVars, delayVars, scenarioVars, handlerVars, errorVars, schemaVars, loggerVars, storeVars, chainVars, toolVars>>

SequenceSpec == Init /\ [][SequenceNext]_vars

(***************************************************************************)
(* C28 (as claimed): for each counter name, the calls of sequence(name)    *)
(* return 1, 2, 3, ... whatever calls for other names come in between, and *)
(* sequence.reset(name) restarts that name's counter only: the k-th call   *)
(* since the name's last reset returns k.                                  *)
(***************************************************************************)
C28_NameKeyedCounter ==
    seqLast.op = "sequence"
    => seqLast.returned = Num(seqCalls[seqLast.name])

(***************************************************************************)
(* A StateStore under mutating calls and undos.                            *)
(***************************************************************************)
StoreNext ==
    \/ \E call \in MutatingCalls :
          /\ Mutate(call)
          /\ UNCHANGED <<routerVars, mockerVars, delayVars, scenarioVars, handlerVars, errorVars, schemaVars, loggerVars, sequenceVars, chainVars, toolVars>>
    \/ /\ Undo
       /\ UNCHANGED <<routerVars, mockerVars, delayVars, scenarioVars, handlerVars, errorVars, schemaVars, loggerVars, sequenceVars, chainVars, toolVars>>

StoreSpec == Init /\ [][StoreNext]_vars

(***************************************************************************)
(* C29 (as claimed): with fewer than 50 entries in the history, an undo    *)
(* after mutating calls that returned restores getState() to what it was   *)
(* before the last of them that is not undone yet, so that k undos after n *)
(* such calls give the state after the first n-k; an undo on an empty      *)
(* history returns false and leaves the state as it is.                    *)
(***************************************************************************)
C29_UndoRestores ==
    (storeLast.op = "undo" /\ Len(store.history) < StoreMaxHistory)
    => /\ storeLast.hadTrail => GetState(store) = storeLast.expected
       /\ ~storeLast.hadHistory => /\ storeLast.returned = Bool(FALSE)
                                   /\ GetState(store) = storeLast.before

(***************************************************************************)
(* An InterceptorChain whose interceptors are registered and removed while *)
(* execute calls are made.                                                 *)
(***************************************************************************)
InitialContexts == {Obj(<<>>), Obj(<<[k |-> S_y, v |-> Num(0)]>>)}

ChainNext ==
    \/ \E fn \in Interceptors :
          /\ Use(fn)
          /\ UNCHANGED <<routerVars, mockerVars, delayVars, scenarioVars, handlerVars, errorVars, schemaVars, loggerVars, sequenceVars, storeVars, toolVars>>
    \/ \E fn \in Interceptors :
          /\ Remove(fn)
          /\ UNCHANGED <<routerVars, mockerVars, delayVars, scenarioVars, handlerVars, errorVars, schemaVars, loggerVars, sequenceVars, storeVars, toolVars>>
    \/ /\ ClearChain
       /\ UNCHANGED <<routerVars, mockerVars, delayVars, scenarioVars, handlerVars, errorVars, schemaVars, loggerVars, sequenceVars, storeVars, toolVars>>
    \/ \E initialContext \in InitialContexts :
          /\ Execute_Start(initialContext)
          /\ UNCHANGED <<routerVars, mockerVars, delayVars, scenarioVars, handlerVars, errorVars, schemaVars, loggerVars, sequenceVars, storeVars, toolVars>>
    \/ /\ Execute_Resume
       /\ UNCHANGED <<routerVars, mockerVars, delayVars, scenarioVars, handlerVars, errorVars, schemaVars, loggerVars, sequenceVars, storeVars, toolVars>>

ChainSpec == Init /\ [][ChainNext]_vars

\* the initial context with the results of the first n calls merged into
\* it, in their order
RECURSIVE MergeCalls(_, _, _)
MergeCalls(initial, calls, n) ==
    IF n = 0 THEN initial
    ELSE LET merged == MergeCalls(initial, calls, n - 1)
             result == InterceptorResult(calls[n].fn)
         IN IF result.t = "undefined" THEN merged ELSE Spread(merged, result)

Throwers == {"throws", "rejects"}

(***************************************************************************)
(* C30: execute invokes the interceptors in registration order, each with  *)
(* the context merged from the results of all earlier ones; when one       *)
(* throws or rejects no later one is invoked, execute resolves, and the    *)
(* context it returns holds the earlier results and interceptorError.      *)
(* (Completeness of the order is stated for a chain that is not modified   *)
(* while the execution is in flight.)                                      *)
(***************************************************************************)
C30_ChainExecution ==
    LET exe == execution
        calls == exe.calls
        n == Len(calls)
    IN exe.state /= "none"
       => /\ n <= Len(exe.registered) + exe.disturbances
          /\ exe.disturbances = 0
                => \A i \in 1..n : calls[i].fn = exe.registered[i]
          /\ \A i \in 1..n :
                calls[i].context = MergeCalls(exe.initial, calls, i - 1)
          /\ \A i \in 1..(n - 1) : calls[i].fn \notin Throwers
          /\ (n > 0 /\ calls[n].fn = "throws") => exe.state = "resolved"
          /\ exe.state = "resolved"
                => IF n > 0 /\ calls[n].fn \in Throwers
                   THEN exe.context
                           = ObjSet(MergeCalls(exe.initial, calls, n - 1),
                                    S_interceptorError, ErrorOf(calls[n].fn))
                   ELSE /\ exe.context = MergeCalls(exe.initial, calls, n)
                        /\ exe.disturbances = 0 => n = Len(exe.registered)

\* an execution has resolved after its second interceptor rejected, with a
\* third one registered that was not invoked
C30_Witness ==
    /\ execution.state = "resolved"
    /\ execution.disturbances = 0
    /\ Len(execution.registered) = 3
    /\ Len(execution.calls) = 2
    /\ execution.calls[1].fn = "second"
    /\ execution.calls[2].fn = "rejects"
    /\ ObjGet(execution.context, S_interceptorError) = ErrorOf("rejects")
    /\ ObjGet(execution.context, S_y) = Num(1)

(***************************************************************************)
(* Schema.parseArgs on bounded argument texts.                             *)
(***************************************************************************)
\* every text over ArgChars of at most MaxArgsLen characters
ArgTexts == UNION {[1..n -> ArgChars] : n \in 0..MaxArgsLen}

\* argument texts as a schema author writes them: a number, a keyword,
\* quoted strings and array/object literals with commas inside, a quoted
\* string with an escaped quote before its comma, a closing bracket inside
\* a quoted string, a nested array
WrittenArgs ==
    { <<"1">>,
      S_true,
      <<"'","1",",","1","'">>,
      <<"\"","1",",","1","\"">>,
      <<"'","\\","'",",","1","'">>,
      <<"[","1",",","1","]">>,
      <<"{","1",",","1","}">>,
      <<"[","[","1",",","1","]",",","1","]">>,
      <<"\"","]",",","1","\"">> }

ArgLists == UNION {[1..n -> WrittenArgs] : n \in 1..MaxArgs}

\* the argument texts written one after the other, separated by ", "
RECURSIVE JoinArgs(_)
JoinArgs(parts) ==
    IF Len(parts) = 1 THEN parts[1]
    ELSE parts[1] \o <<",", " ">> \o JoinArgs(Tail(parts))

OtherThanTools ==
    <<routerVars, mockerVars, delayVars, scenarioVars, handlerVars, errorVars,
      schemaVars, loggerVars, sequenceVars, storeVars, chainVars>>

\* one parseArgs call on a text, or on a list of written arguments
ArgsNext ==
    \/ \E text \in ArgTexts :
          /\ ~parsed.called
          /\ ParseCall(text, <<>>)
          /\ UNCHANGED OtherThanTools
    \/ \E parts \in ArgLists :
          /\ ~parsed.called
          /\ ParseCall(JoinArgs(parts), parts)
          /\ UNCHANGED OtherThanTools

ArgsSpec == Init /\ [][ArgsNext]_vars

\* the quote character of the quoted string position i of s lies in, or ""
\* when the position is outside every quoted string; a quoted string ends at
\* the next occurrence of its quote character not preceded by a backslash
RECURSIVE QuoteBefore(_, _)
QuoteBefore(s, i) ==
    IF i = 1 THEN ""
    ELSE LET q == QuoteBefore(s, i - 1)
             c == s[i - 1] IN
         IF q = "" THEN (IF c \in QuoteChars THEN c ELSE "")
         ELSE IF c = q /\ s[i - 2] # "\\" THEN ""
         ELSE q

\* position i of s is outside every quoted string and is not a closing quote
OutsideQuotes(s, i) == QuoteBefore(s, i) = ""

\* the bracket/brace depth at position i: openers less closers before it,
\* counting those outside quoted strings
DepthAt(s, i) ==
    Cardinality({j \in 1..(i - 1) : s[j] \in OpenChars /\ OutsideQuotes(s, j)})
    - Cardinality({j \in 1..(i - 1) : s[j] \in CloseChars /\ OutsideQuotes(s, j)})

\* the commas outside quoted strings and at depth zero
SplitPoints(s) ==
    {i \in 1..Len(s) : s[i] = "," /\ OutsideQuotes(s, i) /\ DepthAt(s, i) = 0}

\* the texts between the split points, in order
PiecesOf(s) ==
    LET pts == SplitPoints(s)
        from(i) == IF \E p \in pts : p < i
                   THEN 1 + CHOOSE p \in pts : p < i /\ \A r \in pts : r < i => r <= p
                   ELSE 1
        ends == pts \cup {Len(s) + 1}
        RECURSIVE upTo(_)
        upTo(todo) ==
            IF todo = {} THEN <<>>
            ELSE LET e == CHOOSE x \in todo : \A y \in todo : y <= x IN
                 Append(upTo(todo \ {e}), SubSeq(s, from(e), e - 1))
    IN upTo(ends)

\* the arguments the split points give: each piece trimmed and parsed, a
\* blank last piece left out
SplitAtPoints(s) ==
    IF Trim(s) = <<>> THEN <<>>
    ELSE LET pieces == PiecesOf(s)
             n == Len(pieces)
             kept == IF Trim(pieces[n]) = <<>> THEN n - 1 ELSE n IN
         [k \in 1..kept |-> ParseArgValue(Trim(pieces[k]))]

\* C31: parseArgs splits its text exactly at the commas that are outside
\* quoted strings (a quote preceded by a backslash does not end the string)
\* and at bracket/brace depth zero; a list of written arguments, among them
\* quoted strings and array/object literals with commas inside, comes back
\* with one parsed value per written argument.
C31_ArgumentSplitting ==
    parsed.called =>
        /\ parsed.args = SplitAtPoints(parsed.text)
        /\ parsed.parts # <<>> =>
              parsed.args = [k \in 1..Len(parsed.parts) |->
                                 ParseArgValue(parsed.parts[k])]

\* a quoted string with an escaped quote and a comma, then an array literal
\* with a comma, came back as two arguments
C31_Witness ==
    /\ parsed.called
    /\ parsed.parts = << <<"'","\\","'",",","1","'">>,
                         <<"[","1",",","1","]">> >>
    /\ Len(parsed.args) = 2
    /\ parsed.args[1] = Str(<<"\\","'",",","1">>)

(***************************************************************************)
(* ScenarioPresets.rateLimited instances and their evaluations.            *)
(***************************************************************************)
PresetNext ==
    \/ \E limit \in PresetLimits :
          /\ RateLimited(limit)
          /\ UNCHANGED OtherThanTools
    \/ \E i \in 1..MaxPresets :
          /\ PresetCondition(i)
          /\ UNCHANGED OtherThanTools

PresetSpec == Init /\ [][PresetNext]_vars

\* C36: the k-th evaluation of the condition of a rateLimited(limit) preset
\* returns false for k <= limit and true for every k > limit, whatever the
\* evaluations of the other presets in between.
C36_RateLimitedPreset ==
    \A i \in 1..Len(presets) :
        \A k \in 1..Len(presets[i].results) :
            presets[i].results[k] = (k > presets[i].limit)

\* a preset of limit 1 has tripped and stayed tripped while a preset of
\* limit 2, evaluated in the meantime, has not
C36_Witness ==
    /\ Len(presets) = 2
    /\ presets[1].limit = 1
    /\ presets[1].results = <<FALSE, TRUE, TRUE>>
    /\ presets[2].limit = 2
    /\ presets[2].results = <<FALSE, FALSE>>

\* C32: a setDelay(x) that returns leaves getDelay() returning exactly x
\* with no range in effect; a setDelayRange(min, max) that returns leaves
\* getDelay() returning the integers of min..max, min itself when min = max;
\* reset() leaves it returning 0; and no other call changes what getDelay()
\* returns.
C32_LastSetterDetermines ==
    [][ /\ (delayLast'.op = "setDelay" /\ ~delayLast'.threw) =>
              \A ms \in DelayArgs :
                  SetDelay(ms) =>
                      /\ GetDelayValues(defaultDelay', delayRange') = {ms.v}
                      /\ ~delayRange'.set
        /\ (delayLast'.op = "setDelayRange" /\ ~delayLast'.threw) =>
              \A min \in DelayArgs, max \in DelayArgs :
                  SetDelayRange(min, max) =>
                      /\ 0 <= min.v /\ min.v <= max.v
                      /\ GetDelayValues(defaultDelay', delayRange') # {}
                      /\ \A n \in GetDelayValues(defaultDelay', delayRange') :
                            n \in Int /\ min.v <= n /\ n <= max.v
                      /\ min.v = max.v =>
                            GetDelayValues(defaultDelay', delayRange') = {min.v}
        /\ (delayLast'.op = "reset" /\ Reset) =>
              GetDelayValues(defaultDelay', delayRange') = {0}
        /\ (defaultDelay' # defaultDelay \/ delayRange' # delayRange) =>
              /\ delayLast'.op \in {"setDelay", "setDelayRange", "reset"}
              /\ ~delayLast'.threw
      ]_vars

\* setDelay(2) has returned and the delay is the fixed 2
C32_Witness ==
    /\ delayLast = [op |-> "setDelay", threw |-> FALSE]
    /\ GetDelayValues(defaultDelay, delayRange) = {2}
    /\ NoRange = delayRange

\* route configs whose error check passes and whose delay is absent, null
\* or 0, so that the effective delay of handle is 0
ZeroDelayConfigs ==
    {Config(schema, body, Undefined, delay, error) :
        schema \in {Undefined, UserSchema}, body \in {Undefined, StaticBody},
        delay \in {Undefined, Null, Num(0)}, error \in {Undefined, Null}}

LiveTimers ==
    {p \in PromiseIds : /\ promises[p].state = "pending"
                        /\ ~promises[p].atAbort}

\* DelayController.hasPending()
HasPending == Cardinality(activeTimers) > 0

\* C40: hasPending() is true exactly when a started timer has neither fired
\* nor been cancelled; the ids the controller keeps are the timers the
\* runtime still holds; and a timer cancelled by abort() or reset() is gone
\* for good: its callback never runs, so the fn of an execute pending at the
\* abort is never invoked, whatever follows.
C40_TimerBookkeeping ==
    /\ HasPending <=> LiveTimers # {}
    /\ activeTimers = LiveTimers
    /\ scheduled = activeTimers
    /\ \A p \in PromiseIds :
          promises[p].atAbort =>
              /\ p \notin scheduled
              /\ promises[p].state = "pending"
              /\ ~promises[p].fnCalled

\* an execute was pending at an abort; after a reset its fn has still not
\* been invoked, and the timer of a later call is the only one pending
C40_Witness ==
    /\ promises[1].kind = "execute" /\ promises[1].atAbort
    /\ ~promises[1].fnCalled
    /\ delayLast.op = "wait" /\ ~aborted
    /\ promises[2].state = "pending" /\ ~promises[2].atAbort
    /\ activeTimers = {2}

\* C35 (as claimed): a store call that throws (update on a state that is not
\* an object, push or remove on a path that holds no array, set through a
\* value that is not an object) leaves getState() and getHistoryLength() as
\* they were before the call.
C35_FailedCallsChangeNothing ==
    [][ (storeLast'.calls = storeLast.calls + 1 /\ storeLast'.threw) =>
            /\ GetState(store') = GetState(store)
            /\ Len(store'.history) = Len(store.history)
      ]_vars

(***************************************************************************)
(* A StateStore under more changes than its history holds.                 *)
(***************************************************************************)
LongNext ==
    \/ /\ MutateWithin(SetNext, MaxLongOps)
       /\ UNCHANGED <<routerVars, mockerVars, delayVars, scenarioVars, handlerVars, errorVars, schemaVars, loggerVars, sequenceVars, chainVars, toolVars>>
    \/ /\ UndoWithin(MaxLongOps)
       /\ UNCHANGED <<routerVars, mockerVars, delayVars, scenarioVars, handlerVars, errorVars, schemaVars, loggerVars, sequenceVars, chainVars, toolVars>>

LongSpec == Init /\ [][LongNext]_vars

\* C34: the history never holds more than 50 snapshots; a change made with
\* fewer than 50 appends the state before it, a change made with 50 drops
\* the oldest snapshot and appends; an undo takes the newest snapshot away,
\* so after 50 undos in a row the next one finds nothing to undo.
C34_BoundedHistory ==
    [][ /\ Len(store'.history) <= StoreMaxHistory
        /\ (storeLast'.calls = storeLast.calls + 1 /\ storeLast'.op = "set") =>
              store'.history =
                  (IF Len(store.history) < StoreMaxHistory THEN store.history
                   ELSE Tail(store.history)) \o <<GetState(store)>>
        /\ (storeLast'.calls = storeLast.calls + 1 /\ storeLast'.op = "undo") =>
              IF Len(store.history) = 0
              THEN storeLast'.returned = Bool(FALSE) /\ store' = store
              ELSE /\ storeLast'.returned = Bool(TRUE)
                   /\ GetState(store') = store.history[Len(store.history)]
                   /\ store'.history =
                         SubSeq(store.history, 1, Len(store.history) - 1)
      ]_vars

\* the 51st change has been made: the history holds 50 snapshots and the
\* oldest of them is the state after the first change
C34_Witness ==
    /\ storeLast.op = "set" /\ storeLast.calls = StoreMaxHistory + 1
    /\ Len(store.history) = StoreMaxHistory
    /\ StoreGet([store EXCEPT !.state = store.history[1]], <<S_n>>) = Num(2)

\* the interceptors an execution has invoked, in the order of the calls
InvokedBy(exe) == [i \in 1..Len(exe.calls) |-> exe.calls[i].fn]

\* C38 (as claimed): an execute that has returned has invoked the
\* interceptors that were in the chain when it started, each once and in
\* their order, up to the first that threw or rejected, whatever use, remove
\* or clear calls were made while it was suspended.
C38_SnapshotUnderMutation ==
    execution.state = "resolved" =>
        LET invoked == InvokedBy(execution)
            n == Len(invoked)
        IN /\ n <= Len(execution.registered)
           /\ invoked = SubSeq(execution.registered, 1, n)
           /\ n < Len(execution.registered) =>
                 n > 0 /\ invoked[n] \in {"throws", "rejects"}

\* C39 (as claimed): a register call on a pair the router holds replaces the
\* config and leaves the route at its position, where it still wins every
\* path its template accepts over the routes behind it; a register call on
\* a pair the router does not hold (never registered, or unregistered
\* since) places the route behind all the routes held.
C39_ReRegistrationKeepsPriority ==
    [][ \A m \in MethodInputs, t \in Templates, c \in RouterConfigs :
            LET key == CreateKey(m, t)
                was == IndexOfKey(routes, key)
                now == IndexOfKey(routes', key)
            IN (PathToRegex(t).ok /\ routes' # routes /\ Register(m, t, c)) =>
                  IF was # 0
                  THEN /\ now = was
                       /\ routes'[now].config = c
                       /\ \A p \in PathInputs :
                             ( /\ TemplateAccepts(t, p)
                               /\ \A k \in 1..(now - 1) :
                                     ~( /\ routes'[k].method = ToUpperCase(m)
                                        /\ TemplateAccepts(routes'[k].path, p) ) )
                             => /\ Match(routes', m, p).found
                                /\ Match(routes', m, p).key = key
                  ELSE /\ now = Len(routes')
                       /\ Len(routes') = Len(routes) + 1
      ]_vars

(***************************************************************************)
(* A Logger whose level is set by name or number between its messages.     *)
(***************************************************************************)
\* the names setLevel is called with: the five names in several letter
\* cases and a name LOG_LEVELS does not have
LevelNames ==
    {<<"n","o","n","e">>, S_NONE, <<"E","r","r","o","r">>,
     <<"w","a","r","n">>, S_INFO, <<"d","e","b","u","g">>}
LevelArgs ==
    {Str(name) : name \in LevelNames \cup {<<"v","e","r","b","o","s","e">>}}

OtherThanLogger ==
    <<routerVars, mockerVars, delayVars, scenarioVars, handlerVars, errorVars,
      schemaVars, auxVars>>

LevelNext ==
    \/ NewLogger /\ UNCHANGED OtherThanLogger
    \/ \E level \in LevelArgs : SetLevel(level) /\ UNCHANGED OtherThanLogger
    \/ \E n \in {LevelNone, LevelError} :
          SetLevel(Num(n)) /\ UNCHANGED OtherThanLogger
    \/ \E method \in LogMethods : LogAt(method) /\ UNCHANGED OtherThanLogger

LevelSpec == Init /\ [][LevelNext]_vars

\* C37 (as claimed): setLevel with one of the names NONE, ERROR, WARN,
\* INFO, DEBUG, in any letter case, leaves the logger at the level of that
\* name, and a message is recorded in the history exactly when its level is
\* at or below the level of the logger: none after setLevel('none').
C37_SetLevelByName ==
    [][ /\ \A name \in LevelNames :
              SetLevel(Str(name)) =>
                  logger'.level = LogLevels(ToUpperCase(name)).v
        /\ \A method \in LogMethods :
              LogAt(method) =>
                  (Len(logger'.history) = Len(logger.history) + 1
                      <=> method.level <= logger.level)
      ]_vars

====
